---- MODULE Spec2Model ----
(***************************************************************************)
(* A model of the slotted CSMA/CA simulator (services/simulator:           *)
(* runSimulation).  One Tick action is one iteration of the simulation     *)
(* loop: the channel check on the labels at the start of the tick, the     *)
(* VCS (NAV) update of every node, then the state machine update of every  *)
(* node in ascending id.  The inputs of a tick are the Math.random()       *)
(* outcomes: whether a packet arrives at each node (RANDOM mode) and the   *)
(* backoff draw of each node.                                              *)
(***************************************************************************)
EXTENDS Integers, Sequences, FiniteSets, TLC

VARIABLES
    config,     \* the SimConfig of the run (immutable)
    t,          \* the loop variable of the simulation loop
    pc,         \* "run" inside the loop, "done" after runSimulation returned
    nodes,      \* id -> the fields of the Node object
    stats,      \* the SimStats record
    logs,       \* the LogEntry sequence
    timeline,   \* id -> the TimelineCell sequence of the node
    served,     \* history: <<node id, birth tick, outcome>> of every queue pop
    overlapped, \* history: id -> the node's current attempt shared a tick with another transmitter
    prev        \* history: the nodes at the start of the last tick

vars == <<config, t, pc, nodes, stats, logs, timeline, served, overlapped, prev>>

----------------------------------------------------------------------------
(* NodeType *)
IDLE == "IDLE"
SENSING == "SENSING"
BACKOFF == "BACKOFF"
BACKOFF_PAUSED == "BP"
TX_PREAMBLE == "P"
TX_FC == "FC"
TX_DATA == "D"
WAIT_RIFS == "R"
RX_ACK == "A"
COLLISION == "COL"
FAILED == "F"

(* An optional field or a shift() of an empty queue: undefined. *)
Undefined == -1

(* Frame structure *)
LEN_P == 1
LEN_FC == 1
LEN_DATA(c) == c.dataSlots
LEN_RIFS == 1
LEN_ACK_P == 1
LEN_ACK_FC == 1

TxStates == {TX_PREAMBLE, TX_FC, TX_DATA, RX_ACK}

Max(a, b) == IF a >= b THEN a ELSE b
Min(a, b) == IF a <= b THEN a ELSE b

RECURSIVE Pow2(_)
Pow2(e) == IF e <= 0 THEN 1 ELSE 2 * Pow2(e - 1)

----------------------------------------------------------------------------
(* Bounds of the model *)
MaxTicks == 16      \* simDuration of the configurations that are not a fixed scenario
MaxRandomTicks == 7 \* simDuration of the RANDOM mode configurations

(* The configurations the runs are drawn from.  DefaultConfig is the       *)
(* DEFAULT_CONFIG of App; the others change some of its fields.            *)
DefaultConfig ==
    [dataSlots |-> 10, collisionPenalty |-> 40, pe |-> 2, minBe |-> 3,
     maxBe |-> 5, maxNb |-> 4, nodeCount |-> 4, packetGenMode |-> "INTERVAL",
     packetInterval |-> 100, simDuration |-> 500]

(* Trivial idle: one node, no arrival after tick 0 within the run *)
TrivialIdleConfig ==
    [DefaultConfig EXCEPT !.nodeCount = 1, !.simDuration = 10, !.dataSlots = 10,
                          !.pe = 2, !.minBe = 0, !.maxBe = 0]

(* Single node single packet *)
SinglePacketConfig ==
    [DefaultConfig EXCEPT !.nodeCount = 1, !.simDuration = 50, !.dataSlots = 10,
                          !.pe = 0, !.minBe = 0, !.maxBe = 0,
                          !.collisionPenalty = 40, !.maxNb = 4]

(* Two-node simultaneous arrival *)
GuaranteedCollisionConfig ==
    [DefaultConfig EXCEPT !.nodeCount = 2, !.simDuration = 40, !.dataSlots = 3,
                          !.pe = 0, !.minBe = 0, !.maxBe = 0, !.maxNb = 0,
                          !.packetInterval = 1000]

(* Drop after retries: every attempt of the two nodes is aligned *)
DropAfterRetriesConfig ==
    [DefaultConfig EXCEPT !.nodeCount = 2, !.simDuration = 40, !.dataSlots = 1,
                          !.pe = 0, !.minBe = 0, !.maxBe = 0, !.maxNb = 2,
                          !.packetInterval = 25]

ScenarioConfigs ==
    {TrivialIdleConfig, SinglePacketConfig, GuaranteedCollisionConfig,
     DropAfterRetriesConfig}

(* One node, INTERVAL mode *)
SingleNodeConfigs ==
    { [DefaultConfig EXCEPT !.nodeCount = 1, !.simDuration = MaxTicks,
                            !.dataSlots = d, !.pe = p, !.minBe = b[1],
                            !.maxBe = b[2], !.packetInterval = k,
                            !.collisionPenalty = 3, !.maxNb = 1] :
        d \in 1..3, p \in 0..2, b \in {<<0, 0>>, <<0, 1>>, <<1, 2>>},
        k \in {4, 100} }

(* Several nodes, INTERVAL mode: every node gets its packets in the same ticks *)
IntervalConfigs ==
    { [DefaultConfig EXCEPT !.nodeCount = n, !.simDuration = MaxTicks,
                            !.dataSlots = 1, !.pe = 0, !.minBe = 0,
                            !.maxBe = 1, !.packetInterval = k,
                            !.collisionPenalty = 2, !.maxNb = x] :
        n \in 2..3, k \in {6, 100}, x \in 0..1 }

(* Two nodes, INTERVAL mode, long enough for retries, drops and the       *)
(* packets that follow them                                                *)
LongRunConfigs ==
    { [DefaultConfig EXCEPT !.nodeCount = 2, !.simDuration = 40,
                            !.dataSlots = 1, !.pe = 0, !.minBe = b[1],
                            !.maxBe = b[2], !.packetInterval = k,
                            !.collisionPenalty = 4, !.maxNb = 1] :
        b \in {<<0, 1>>, <<1, 1>>}, k \in {12, 25} }

(* Two nodes, RANDOM mode with 0 < packetProb < 1: any node may get a      *)
(* packet in any tick                                                      *)
RandomConfigs ==
    { [DefaultConfig EXCEPT !.nodeCount = 2, !.simDuration = MaxRandomTicks,
                            !.dataSlots = 1, !.pe = 0, !.minBe = 0,
                            !.maxBe = 1, !.maxNb = 1, !.collisionPenalty = 3,
                            !.packetGenMode = "RANDOM"] }

(* Two nodes, INTERVAL mode, one packet each and draws of up to 3: a node  *)
(* can be paused by the other's frame before its counter has moved         *)
PausedCountConfigs ==
    { [DefaultConfig EXCEPT !.nodeCount = 2, !.simDuration = MaxTicks,
                            !.dataSlots = 1, !.pe = 0, !.minBe = 2,
                            !.maxBe = 2, !.packetInterval = 100,
                            !.collisionPenalty = 3, !.maxNb = 0] }

(* Two nodes, INTERVAL mode, one packet each and up to three retries of it *)
RetryConfigs ==
    { [DefaultConfig EXCEPT !.nodeCount = 2, !.simDuration = 40,
                            !.dataSlots = 1, !.pe = 0, !.minBe = 0,
                            !.maxBe = 1, !.packetInterval = 100,
                            !.collisionPenalty = 2, !.maxNb = 3] }

(* Three nodes, INTERVAL mode: the second arrival comes in the tick in     *)
(* which two retrying nodes can overlap while the third backs off         *)
OrderingConfigs ==
    { [DefaultConfig EXCEPT !.nodeCount = 3, !.simDuration = MaxTicks,
                            !.dataSlots = 1, !.pe = 0, !.minBe = 0,
                            !.maxBe = 1, !.packetInterval = 9,
                            !.collisionPenalty = 2, !.maxNb = 1] }

(* Two nodes, INTERVAL mode, aligned frames of several data slots, with    *)
(* packets arriving while the frames are on the air                        *)
BusyArrivalConfigs ==
    { [DefaultConfig EXCEPT !.nodeCount = 2, !.simDuration = MaxTicks,
                            !.dataSlots = 2, !.pe = 0, !.minBe = 0,
                            !.maxBe = 0, !.packetInterval = 4,
                            !.collisionPenalty = 2, !.maxNb = 0] }

(* Two nodes, INTERVAL mode, one packet each at tick 0 and a run that     *)
(* outlasts every retry and every NAV the packets can cause                *)
DrainConfigs ==
    { [DefaultConfig EXCEPT !.nodeCount = 2, !.simDuration = 60,
                            !.dataSlots = 1, !.pe = 0, !.minBe = 0,
                            !.maxBe = 1, !.packetInterval = 1000,
                            !.collisionPenalty = 2, !.maxNb = 1] }

Configs ==
    ScenarioConfigs \cup SingleNodeConfigs \cup IntervalConfigs
        \cup LongRunConfigs \cup RandomConfigs \cup RetryConfigs
        \cup OrderingConfigs \cup BusyArrivalConfigs \cup DrainConfigs
        \cup PausedCountConfigs

----------------------------------------------------------------------------
(* class Node *)
NewNode(c) ==
    [state |-> IDLE, packetQueue |-> <<>>, vcs |-> 0, nb |-> 0,
     be |-> c.minBe, backoffCounter |-> 0, txProgress |-> 0,
     isCurrentTxDoomed |-> FALSE]

resetProtocolState(n, c) ==
    [n EXCEPT !.nb = 0, !.be = c.minBe, !.vcs = 0, !.backoffCounter = 0]

(* r is floor(Math.random() * (max + 1)), a value in 0 .. max *)
generateBackoff(n, c, r) ==
    [n EXCEPT !.backoffCounter = r + c.pe]

BackoffDraws(n) == 0 .. (Pow2(n.be) - 1)

Log(tick, nodeId, type, message) ==
    [tick |-> tick, nodeId |-> nodeId, type |-> type, message |-> message]

NodeIds(c) == 0 .. (c.nodeCount - 1)

InitStats ==
    [totalPacketsGenerated |-> 0, successCount |-> 0, success1st |-> 0,
     success2nd |-> 0, success3rd |-> 0, failureCount |-> 0,
     collisionCount |-> 0, totalLatency |-> 0, maxQueueDepth |-> 0,
     channelIdleTicks |-> 0, channelTxTicks |-> 0,
     channelCollisionTicks |-> 0, channelBackoffTicks |-> 0]

Init ==
    /\ config \in Configs
    /\ t = 0
    /\ pc = "run"
    /\ nodes = [i \in NodeIds(config) |-> NewNode(config)]
    /\ stats = InitStats
    /\ logs = <<>>
    /\ timeline = [i \in NodeIds(config) |-> <<>>]
    /\ served = <<>>
    /\ overlapped = [i \in NodeIds(config) |-> FALSE]
    /\ prev = [i \in NodeIds(config) |-> NewNode(config)]

----------------------------------------------------------------------------
(* Phase 1: Physical Channel Check, on the states at the start of the tick *)
Transmitters(ns) == {i \in DOMAIN ns : ns[i].state \in TxStates}
RifsWaiters(ns) == {i \in DOMAIN ns : ns[i].state = WAIT_RIFS}
IsPreambleActive(ns) == \E i \in Transmitters(ns) : ns[i].state = TX_PREAMBLE
IsFcActive(ns) == \E i \in Transmitters(ns) : ns[i].state = TX_FC
PhysicalBusy(ns) == Cardinality(Transmitters(ns)) > 0
(* Faulty variant: nodes waiting in RIFS count as overlapping signals. *)
CollisionOccurringCountsRifs(ns) ==
    Cardinality(Transmitters(ns) \cup RifsWaiters(ns)) > 1

CollisionOccurring(ns) == Cardinality(Transmitters(ns)) > 1
BackingOff(ns) == \E i \in DOMAIN ns : ns[i].state \in {BACKOFF, BACKOFF_PAUSED}

(* Faulty variant: the "else" after the collision bin is missing. *)
ChannelStatsNoElse(st, ns) ==
    LET st1 == IF CollisionOccurring(ns)
               THEN [st EXCEPT !.channelCollisionTicks = @ + 1]
               ELSE st
    IN  IF PhysicalBusy(ns) \/ Cardinality(RifsWaiters(ns)) > 0
        THEN [st1 EXCEPT !.channelTxTicks = @ + 1]
        ELSE IF BackingOff(ns)
        THEN [st1 EXCEPT !.channelBackoffTicks = @ + 1]
        ELSE [st1 EXCEPT !.channelIdleTicks = @ + 1]

(* Channel Utilization Stats *)
ChannelStats(st, ns) ==
    IF CollisionOccurring(ns)
    THEN [st EXCEPT !.channelCollisionTicks = @ + 1]
    ELSE IF PhysicalBusy(ns) \/ Cardinality(RifsWaiters(ns)) > 0
    THEN [st EXCEPT !.channelTxTicks = @ + 1]
    ELSE IF BackingOff(ns)
    THEN [st EXCEPT !.channelBackoffTicks = @ + 1]
    ELSE [st EXCEPT !.channelIdleTicks = @ + 1]

(* The transmitters a collision newly dooms in this tick. *)
(* Faulty variant: only the first transmitter of the list is marked. *)
NewlyDoomedFirstOnly(ns) ==
    IF CollisionOccurring(ns)
    THEN {i \in Transmitters(ns) :
             /\ ~ns[i].isCurrentTxDoomed
             /\ \A j \in Transmitters(ns) : i <= j}
    ELSE {}

NewlyDoomed(ns) ==
    IF CollisionOccurring(ns)
    THEN {i \in Transmitters(ns) : ~ns[i].isCurrentTxDoomed}
    ELSE {}

(* Faulty variant: the overlap is counted but the attempt is not marked. *)
MarkDoomedNoFlag(ns) == ns

MarkDoomed(ns) ==
    [i \in DOMAIN ns |->
        IF i \in NewlyDoomed(ns)
        THEN [ns[i] EXCEPT !.isCurrentTxDoomed = TRUE]
        ELSE ns[i]]

(* The entries of the ids of S, in ascending id: f maps an id to a sequence. *)
RECURSIVE InIdOrder(_, _, _)
InIdOrder(f, lo, hi) ==
    IF lo > hi THEN <<>> ELSE f[lo] \o InIdOrder(f, lo + 1, hi)

CollisionLogs(ns, tick) ==
    InIdOrder([i \in DOMAIN ns |->
                  IF i \in NewlyDoomed(ns)
                  THEN <<Log(tick, i, "COLLISION", <<"Signal overlap detected">>)>>
                  ELSE <<>>],
              0, Cardinality(DOMAIN ns) - 1)

----------------------------------------------------------------------------
(* Phase 2: Node Perception (VCS).  ns are the nodes at the start of the   *)
(* tick: the transmitter set and the flags are those of phase 1.           *)
DurationRemaining(c) == LEN_DATA(c) + LEN_RIFS + LEN_ACK_P + LEN_ACK_FC

VcsAfterPreamble(n, c, ns) ==
    IF IsPreambleActive(ns) THEN Max(n.vcs, c.collisionPenalty) ELSE n.vcs

VcsAfterFc(v, c, ns) ==
    IF IsFcActive(ns) /\ ~CollisionOccurring(ns) THEN DurationRemaining(c) ELSE v

(* Faulty variant: the NAV never counts down. *)
VcsDecrementNever(v) == v

VcsDecrement(v) == IF v > 0 THEN v - 1 ELSE v

VcsUpdate(n, i, c, ns) ==
    IF i \notin Transmitters(ns)
    THEN [n EXCEPT !.vcs = VcsDecrement(VcsAfterFc(VcsAfterPreamble(n, c, ns), c, ns))]
    ELSE n

VcsLogs(n, i, c, ns, tick) ==
    IF i \notin Transmitters(ns)
    THEN (IF IsPreambleActive(ns) /\ n.vcs = 0
          THEN <<Log(tick, i, "VCS", <<"Heard Preamble, VCS set to ", c.collisionPenalty>>)>>
          ELSE <<>>)
         \o
         (IF IsFcActive(ns) /\ ~CollisionOccurring(ns)
          THEN <<Log(tick, i, "VCS", <<"Decoded FC, NAV set to ", DurationRemaining(c)>>)>>
          ELSE <<>>)
    ELSE <<>>

----------------------------------------------------------------------------
(* Phase 3: State Machine Update of one node.  Each step yields the node   *)
(* after it, the log entries it appends, the increments of the stats, the  *)
(* birth tick of the packet it shifts off the queue (if any) and the       *)
(* state and info of the visualization cell.                               *)
NoDelta ==
    [successCount |-> 0, success1st |-> 0, success2nd |-> 0, success3rd |-> 0,
     failureCount |-> 0, totalLatency |-> 0]

Step(n, lg, cellState, cellInfo, delta, pops) ==
    [node |-> n, logs |-> lg, cellState |-> cellState, cellInfo |-> cellInfo,
     delta |-> delta, pops |-> pops]

(* Array.prototype.shift: the first element, or undefined of an empty array *)
ShiftValue(q) == IF Len(q) > 0 THEN Head(q) ELSE Undefined
ShiftRest(q) == IF Len(q) > 0 THEN Tail(q) ELSE q

(* Faulty variant: the first INTERVAL packet comes after one interval. *)
ShouldGenerateAfterFirstInterval(c, tick, arrive) ==
    IF c.packetGenMode = "INTERVAL"
    THEN tick > 0 /\ tick % c.packetInterval = 0
    ELSE arrive

(* Input Generation *)
ShouldGenerate(c, tick, arrive) ==
    IF c.packetGenMode = "INTERVAL"
    THEN tick % c.packetInterval = 0
    ELSE arrive

Generate(n, i, tick) ==
    [n EXCEPT !.packetQueue = Append(@, tick)]

GenerateLogs(n, i, tick) ==
    <<Log(tick, i, "INFO", <<"Packet generated (Queue: ", Len(n.packetQueue) + 1, ")">>)>>

(* Faulty variant: a node that is done with a packet always idles. *)
NextAfterPacketAlwaysIdle(n) == IDLE

NextAfterPacket(n) == IF Len(n.packetQueue) > 0 THEN SENSING ELSE IDLE

StepIdle(n, i, c, tick) ==
    IF Len(n.packetQueue) > 0
    THEN Step(resetProtocolState([n EXCEPT !.state = SENSING], c),
              <<>>, n.state, Undefined, NoDelta, <<>>)
    ELSE Step(n, <<>>, n.state, Undefined, NoDelta, <<>>)

(* Faulty variant: only the physical carrier is sensed. *)
ChannelFreeIgnoresVcs(n, physicalBusy) == ~physicalBusy

(* Faulty variant: only the NAV is consulted, not the physical carrier. *)
ChannelFreeIgnoresCarrier(n, physicalBusy) == n.vcs = 0

ChannelFree(n, physicalBusy) == ~physicalBusy /\ n.vcs = 0

(* Faulty variant: the entry to TX_PREAMBLE from SENSING leaves the flag   *)
(* of the last attempt set.                                               *)
StepSensingKeepsDoomed(n, i, c, tick, r, physicalBusy) ==
    IF ChannelFree(n, physicalBusy)
    THEN LET b == generateBackoff(n, c, r)
             lg == <<Log(tick, i, "INFO", <<"Start Backoff (", b.backoffCounter, ")">>)>>
         IN  IF b.backoffCounter = 0
             THEN Step([b EXCEPT !.state = TX_PREAMBLE, !.txProgress = 0],
                       lg, n.state, Undefined, NoDelta, <<>>)
             ELSE Step([b EXCEPT !.state = BACKOFF],
                       lg, n.state, Undefined, NoDelta, <<>>)
    ELSE Step(n, <<>>, n.state, Undefined, NoDelta, <<>>)

StepSensing(n, i, c, tick, r, physicalBusy) ==
    IF ChannelFree(n, physicalBusy)
    THEN LET b == generateBackoff(n, c, r)
             lg == <<Log(tick, i, "INFO", <<"Start Backoff (", b.backoffCounter, ")">>)>>
         IN  IF b.backoffCounter = 0
             THEN Step([b EXCEPT !.state = TX_PREAMBLE, !.txProgress = 0,
                                 !.isCurrentTxDoomed = FALSE],
                       lg, n.state, Undefined, NoDelta, <<>>)
             ELSE Step([b EXCEPT !.state = BACKOFF],
                       lg, n.state, Undefined, NoDelta, <<>>)
    ELSE Step(n, <<>>, n.state, Undefined, NoDelta, <<>>)

(* Faulty variant: the counter is run down to 0 before the transmission. *)
StepBackoffCountsToZero(n, i, c, tick, physicalBusy) ==
    IF ChannelFree(n, physicalBusy)
    THEN IF n.backoffCounter > 0
         THEN Step([n EXCEPT !.state = BACKOFF, !.backoffCounter = @ - 1],
                   <<>>, BACKOFF, n.backoffCounter, NoDelta, <<>>)
         ELSE Step([n EXCEPT !.state = TX_PREAMBLE, !.txProgress = 0,
                             !.isCurrentTxDoomed = FALSE],
                   <<Log(tick, i, "INFO", <<"Backoff complete, transmitting">>)>>,
                   BACKOFF, n.backoffCounter, NoDelta, <<>>)
    ELSE Step([n EXCEPT !.state = BACKOFF_PAUSED],
              <<>>, n.state, n.backoffCounter, NoDelta, <<>>)

(* Faulty variant: the entry to TX_PREAMBLE from BACKOFF leaves the flag   *)
(* of the last attempt set.                                               *)
StepBackoffKeepsDoomed(n, i, c, tick, physicalBusy) ==
    IF ChannelFree(n, physicalBusy)
    THEN IF n.backoffCounter > 1
         THEN Step([n EXCEPT !.state = BACKOFF, !.backoffCounter = @ - 1],
                   <<>>, BACKOFF, n.backoffCounter, NoDelta, <<>>)
         ELSE Step([n EXCEPT !.state = TX_PREAMBLE, !.txProgress = 0],
                   <<Log(tick, i, "INFO", <<"Backoff complete, transmitting">>)>>,
                   BACKOFF, n.backoffCounter, NoDelta, <<>>)
    ELSE Step([n EXCEPT !.state = BACKOFF_PAUSED],
              <<>>, n.state, n.backoffCounter, NoDelta, <<>>)

(* Faulty variant: the cell of a resuming node keeps the label the node    *)
(* had at the start of the tick.                                           *)
StepBackoffShowsStartLabel(n, i, c, tick, physicalBusy) ==
    IF ChannelFree(n, physicalBusy)
    THEN IF n.backoffCounter > 1
         THEN Step([n EXCEPT !.state = BACKOFF, !.backoffCounter = @ - 1],
                   <<>>, n.state, n.backoffCounter, NoDelta, <<>>)
         ELSE Step([n EXCEPT !.state = TX_PREAMBLE, !.txProgress = 0,
                             !.isCurrentTxDoomed = FALSE],
                   <<Log(tick, i, "INFO", <<"Backoff complete, transmitting">>)>>,
                   n.state, n.backoffCounter, NoDelta, <<>>)
    ELSE Step([n EXCEPT !.state = BACKOFF_PAUSED],
              <<>>, n.state, n.backoffCounter, NoDelta, <<>>)

StepBackoff(n, i, c, tick, physicalBusy) ==
    IF ChannelFree(n, physicalBusy)
    THEN IF n.backoffCounter > 1
         THEN Step([n EXCEPT !.state = BACKOFF, !.backoffCounter = @ - 1],
                   <<>>, BACKOFF, n.backoffCounter, NoDelta, <<>>)
         ELSE Step([n EXCEPT !.state = TX_PREAMBLE, !.txProgress = 0,
                             !.isCurrentTxDoomed = FALSE],
                   <<Log(tick, i, "INFO", <<"Backoff complete, transmitting">>)>>,
                   BACKOFF, n.backoffCounter, NoDelta, <<>>)
    ELSE Step([n EXCEPT !.state = BACKOFF_PAUSED],
              <<>>, n.state, n.backoffCounter, NoDelta, <<>>)

(* Faulty variant: ">" for ">=", every phase lasts one tick more. *)
StepPhaseOffByOne(n, len, next) ==
    IF n.txProgress + 1 > len
    THEN Step([n EXCEPT !.state = next, !.txProgress = 0],
              <<>>, n.state, Undefined, NoDelta, <<>>)
    ELSE Step([n EXCEPT !.txProgress = @ + 1],
              <<>>, n.state, Undefined, NoDelta, <<>>)

(* TX_PREAMBLE, TX_FC, TX_DATA, WAIT_RIFS: len ticks, then the next state *)
StepPhase(n, len, next) ==
    IF n.txProgress + 1 >= len
    THEN Step([n EXCEPT !.state = next, !.txProgress = 0],
              <<>>, n.state, Undefined, NoDelta, <<>>)
    ELSE Step([n EXCEPT !.txProgress = @ + 1],
              <<>>, n.state, Undefined, NoDelta, <<>>)

(* Faulty variant: every success after a retry is counted as a second try. *)
SuccessBucketTwoWay(n) ==
    IF n.nb = 0 THEN "success1st" ELSE "success2nd"

SuccessBucket(n) ==
    IF n.nb = 0 THEN "success1st"
    ELSE IF n.nb = 1 THEN "success2nd"
    ELSE "success3rd"

(* Faulty variant: the packet is counted but stays in the queue. *)
AckSuccessNoShift(n, i, c, tick) ==
    LET birthTick == ShiftValue(n.packetQueue)
        n1 == resetProtocolState([n EXCEPT !.txProgress = @ + 1], c)
        d == [[NoDelta EXCEPT !.successCount = 1,
                              !.totalLatency =
                                  IF birthTick # Undefined THEN tick - birthTick ELSE 0]
                 EXCEPT ![SuccessBucket(n)] = 1]
    IN  Step([n1 EXCEPT !.state = NextAfterPacket(n1)],
             <<Log(tick, i, "SUCCESS", <<"ACK received, transaction complete">>)>>,
             n.state, Undefined, d, <<<<i, birthTick, SuccessBucket(n)>>>>)

AckSuccess(n, i, c, tick) ==
    LET birthTick == ShiftValue(n.packetQueue)
        n1 == resetProtocolState([n EXCEPT !.txProgress = @ + 1,
                                           !.packetQueue = ShiftRest(@)], c)
        d == [[NoDelta EXCEPT !.successCount = 1,
                              !.totalLatency =
                                  IF birthTick # Undefined THEN tick - birthTick ELSE 0]
                 EXCEPT ![SuccessBucket(n)] = 1]
    IN  Step([n1 EXCEPT !.state = NextAfterPacket(n1)],
             <<Log(tick, i, "SUCCESS", <<"ACK received, transaction complete">>)>>,
             n.state, Undefined, d, <<<<i, birthTick, SuccessBucket(n)>>>>)

(* Faulty variant: the drop is counted but the packet stays in the queue. *)
AckDropNoShift(n, i, c, tick) ==
    LET n1 == resetProtocolState([n EXCEPT !.txProgress = @ + 1, !.nb = @ + 1], c)
    IN  Step([n1 EXCEPT !.state = FAILED],
             <<Log(tick, i, "DROP",
                   <<"Max retries (", c.maxNb, ") reached. Dropping packet.">>)>>,
             n.state, Undefined, [NoDelta EXCEPT !.failureCount = 1], <<>>)

(* Faulty variant: the retry count of the dropped packet is kept. *)
AckDropKeepsNb(n, i, c, tick) ==
    LET birthTick == ShiftValue(n.packetQueue)
        n1 == resetProtocolState([n EXCEPT !.txProgress = @ + 1,
                                           !.packetQueue = ShiftRest(@)], c)
    IN  Step([n1 EXCEPT !.state = FAILED, !.nb = n.nb + 1],
             <<Log(tick, i, "DROP",
                   <<"Max retries (", c.maxNb, ") reached. Dropping packet.">>)>>,
             n.state, Undefined, [NoDelta EXCEPT !.failureCount = 1],
             <<<<i, birthTick, "failureCount">>>>)

AckDrop(n, i, c, tick) ==
    LET birthTick == ShiftValue(n.packetQueue)
        n1 == resetProtocolState([n EXCEPT !.txProgress = @ + 1, !.nb = @ + 1,
                                           !.packetQueue = ShiftRest(@)], c)
    IN  Step([n1 EXCEPT !.state = FAILED],
             <<Log(tick, i, "DROP",
                   <<"Max retries (", c.maxNb, ") reached. Dropping packet.">>)>>,
             n.state, Undefined, [NoDelta EXCEPT !.failureCount = 1],
             <<<<i, birthTick, "failureCount">>>>)

(* Faulty variant: the backoff exponent grows without the cap of maxBe. *)
AckRetryUncapped(n, i, c, tick) ==
    LET n1 == [n EXCEPT !.txProgress = @ + 1, !.nb = @ + 1,
                        !.be = @ + 1, !.vcs = 0,
                        !.backoffCounter = 0, !.state = SENSING]
    IN  Step(n1,
             <<Log(tick, i, "COLLISION",
                   <<"No ACK. Retrying (NB=", n1.nb, ", BE=", n1.be, ")">>)>>,
             n.state, Undefined, NoDelta, <<>>)

(* Faulty variant: a retry leaves the backoff exponent as it is. *)
AckRetryKeepsBe(n, i, c, tick) ==
    LET n1 == [n EXCEPT !.txProgress = @ + 1, !.nb = @ + 1, !.vcs = 0,
                        !.backoffCounter = 0, !.state = SENSING]
    IN  Step(n1,
             <<Log(tick, i, "COLLISION",
                   <<"No ACK. Retrying (NB=", n1.nb, ", BE=", n1.be, ")">>)>>,
             n.state, Undefined, NoDelta, <<>>)

AckRetry(n, i, c, tick) ==
    LET n1 == [n EXCEPT !.txProgress = @ + 1, !.nb = @ + 1,
                        !.be = Min(@ + 1, c.maxBe), !.vcs = 0,
                        !.backoffCounter = 0, !.state = SENSING]
    IN  Step(n1,
             <<Log(tick, i, "COLLISION",
                   <<"No ACK. Retrying (NB=", n1.nb, ", BE=", n1.be, ")">>)>>,
             n.state, Undefined, NoDelta, <<>>)

(* Faulty variant: the packet is dropped one failed attempt early. *)
StepRxAckDropsEarly(n, i, c, tick) ==
    IF n.txProgress + 1 >= LEN_ACK_P + LEN_ACK_FC
    THEN IF ~n.isCurrentTxDoomed
         THEN AckSuccess(n, i, c, tick)
         ELSE IF n.nb + 1 >= c.maxNb
              THEN AckDrop(n, i, c, tick)
              ELSE AckRetry(n, i, c, tick)
    ELSE Step([n EXCEPT !.txProgress = @ + 1],
              <<>>, n.state, Undefined, NoDelta, <<>>)

StepRxAck(n, i, c, tick) ==
    IF n.txProgress + 1 >= LEN_ACK_P + LEN_ACK_FC
    THEN IF ~n.isCurrentTxDoomed
         THEN AckSuccess(n, i, c, tick)
         ELSE IF n.nb + 1 > c.maxNb
              THEN AckDrop(n, i, c, tick)
              ELSE AckRetry(n, i, c, tick)
    ELSE Step([n EXCEPT !.txProgress = @ + 1],
              <<>>, n.state, Undefined, NoDelta, <<>>)

(* Faulty variant: FAILED always ends in IDLE. *)
StepFailedToIdle(n) ==
    Step([n EXCEPT !.state = IDLE],
         <<>>, n.state, Undefined, NoDelta, <<>>)

StepFailed(n) ==
    Step([n EXCEPT !.state = NextAfterPacket(n)],
         <<>>, n.state, Undefined, NoDelta, <<>>)

Transition(n, i, c, tick, r, physicalBusy) ==
    CASE n.state = IDLE -> StepIdle(n, i, c, tick)
      [] n.state = SENSING -> StepSensing(n, i, c, tick, r, physicalBusy)
      [] n.state \in {BACKOFF, BACKOFF_PAUSED} -> StepBackoff(n, i, c, tick, physicalBusy)
      [] n.state = TX_PREAMBLE -> StepPhase(n, LEN_P, TX_FC)
      [] n.state = TX_FC -> StepPhase(n, LEN_FC, TX_DATA)
      [] n.state = TX_DATA -> StepPhase(n, LEN_DATA(c), WAIT_RIFS)
      [] n.state = WAIT_RIFS -> StepPhase(n, LEN_RIFS, RX_ACK)
      [] n.state = RX_ACK -> StepRxAck(n, i, c, tick)
      [] n.state = FAILED -> StepFailed(n)
      [] OTHER -> Step(n, <<>>, n.state, Undefined, NoDelta, <<>>)

(* Faulty variant: every cell of a collision tick is marked. *)
TimelineCellMarksAll(cellState, cellInfo, collisionOccurring) ==
    IF collisionOccurring
    THEN [state |-> COLLISION, info |-> cellInfo, isCollision |-> TRUE]
    ELSE [state |-> cellState, info |-> cellInfo, isCollision |-> FALSE]

(* Push to Timeline *)
TimelineCell(cellState, cellInfo, collisionOccurring) ==
    IF cellState \in TxStates /\ collisionOccurring
    THEN [state |-> COLLISION, info |-> cellInfo, isCollision |-> TRUE]
    ELSE [state |-> cellState, info |-> cellInfo, isCollision |-> FALSE]

(* Faulty variant: only an IDLE node gets the packet of the tick. *)
NodeUpdateGeneratesOnlyWhenIdle(n, i, c, tick, arrive, r, physicalBusy) ==
    IF ShouldGenerate(c, tick, arrive) /\ n.state = IDLE
    THEN LET s == Transition(Generate(n, i, tick), i, c, tick, r, physicalBusy)
         IN  [s EXCEPT !.logs = GenerateLogs(n, i, tick) \o @] @@ [generated |-> 1]
    ELSE Transition(n, i, c, tick, r, physicalBusy) @@ [generated |-> 0]

(* The whole phase 3 body for node i: generation, transition, cell. *)
NodeUpdate(n, i, c, tick, arrive, r, physicalBusy) ==
    IF ShouldGenerate(c, tick, arrive)
    THEN LET s == Transition(Generate(n, i, tick), i, c, tick, r, physicalBusy)
         IN  [s EXCEPT !.logs = GenerateLogs(n, i, tick) \o @] @@ [generated |-> 1]
    ELSE Transition(n, i, c, tick, r, physicalBusy) @@ [generated |-> 0]

----------------------------------------------------------------------------
(* One iteration of the simulation loop. *)
RECURSIVE SumOver(_, _, _)
SumOver(f, lo, hi) == IF lo > hi THEN 0 ELSE f[lo] + SumOver(f, lo + 1, hi)

LastId(c) == c.nodeCount - 1

(* Nodes after phases 1 and 2 *)
Perceived(ns, c) == [i \in DOMAIN ns |-> VcsUpdate(MarkDoomed(ns)[i], i, c, ns)]

(* The Math.random() outcomes a tick can consume: a node draws a backoff   *)
(* only in SENSING on a free channel.                                      *)
DrawChoices(ns, c) ==
    LET p == Perceived(ns, c)
    IN  {r \in [DOMAIN ns -> 0 .. (Pow2(c.maxBe) - 1)] :
            \A i \in DOMAIN ns :
                IF p[i].state = SENSING /\ ChannelFree(p[i], PhysicalBusy(ns))
                THEN r[i] \in BackoffDraws(p[i])
                ELSE r[i] = 0}

(* The nodes that get a packet in a tick: in RANDOM mode any of them, as    *)
(* Math.random() < packetProb is drawn for every node in every tick; in    *)
(* INTERVAL mode the tick decides and nothing is drawn.                    *)
ArrivalChoices(c, st) ==
    IF c.packetGenMode = "INTERVAL"
    THEN {{}}
    ELSE SUBSET NodeIds(c)

Updates(ns, c, tick, arrive, r) ==
    [i \in DOMAIN ns |->
        NodeUpdate(Perceived(ns, c)[i], i, c, tick, i \in arrive, r[i], PhysicalBusy(ns))]

StatsAfter(st, ns, c, up) ==
    LET st1 == ChannelStats(st, ns)
        sum(field) == SumOver([i \in DOMAIN up |-> up[i].delta[field]], 0, LastId(c))
        depth == [i \in DOMAIN up |->
                     IF up[i].generated = 1
                     THEN Len(ns[i].packetQueue) + 1 ELSE 0]
    IN  [st1 EXCEPT
            !.collisionCount = @ + Cardinality(NewlyDoomed(ns)),
            !.totalPacketsGenerated =
                @ + SumOver([i \in DOMAIN up |-> up[i].generated], 0, LastId(c)),
            !.maxQueueDepth =
                Max(@, IF c.nodeCount > 0
                       THEN CHOOSE m \in {depth[i] : i \in DOMAIN up} :
                                \A i \in DOMAIN up : m >= depth[i]
                       ELSE 0),
            !.successCount = @ + sum("successCount"),
            !.success1st = @ + sum("success1st"),
            !.success2nd = @ + sum("success2nd"),
            !.success3rd = @ + sum("success3rd"),
            !.failureCount = @ + sum("failureCount"),
            !.totalLatency = @ + sum("totalLatency")]

(* Faulty variant: the entries of the state machines come before those of *)
(* the VCS update.                                                         *)
LogsAfterFsmFirst(lg, ns, c, tick, up) ==
    lg \o CollisionLogs(ns, tick)
       \o InIdOrder([i \in DOMAIN up |-> up[i].logs], 0, LastId(c))
       \o InIdOrder([i \in DOMAIN ns |-> VcsLogs(MarkDoomed(ns)[i], i, c, ns, tick)],
                    0, LastId(c))

(* Faulty variant: no cell is pushed for a node that idles. *)
PushCellsSkipsIdle(tl, up, collisionOccurring) ==
    [i \in DOMAIN tl |->
        IF up[i].cellState = IDLE
        THEN tl[i]
        ELSE Append(tl[i], TimelineCell(up[i].cellState, up[i].cellInfo,
                                        collisionOccurring))]

(* timeline[n.id].push(...) of every node *)
PushCells(tl, up, collisionOccurring) ==
    [i \in DOMAIN tl |->
        Append(tl[i], TimelineCell(up[i].cellState, up[i].cellInfo,
                                   collisionOccurring))]

LogsAfter(lg, ns, c, tick, up) ==
    lg \o CollisionLogs(ns, tick)
       \o InIdOrder([i \in DOMAIN ns |-> VcsLogs(MarkDoomed(ns)[i], i, c, ns, tick)],
                    0, LastId(c))
       \o InIdOrder([i \in DOMAIN up |-> up[i].logs], 0, LastId(c))

(* The tick as the loop runs it: the nodes are visited one after another  *)
(* and each visit writes to the node array, the stats and the timeline.    *)
(* ns0 holds the nodes as phase 1 found them: the channel flags are        *)
(* constants computed from it before any visit.                            *)
VisitVcs(acc, i, c, ns0) == [acc EXCEPT ![i] = VcsUpdate(acc[i], i, c, ns0)]

RECURSIVE VcsPhase(_, _, _, _, _)
VcsPhase(acc, order, k, c, ns0) ==
    IF k > Len(order) THEN acc
    ELSE VcsPhase(VisitVcs(acc, order[k], c, ns0), order, k + 1, c, ns0)

FsmVisit(acc, i, u, collisionOccurring) ==
    [nodes |-> [acc.nodes EXCEPT ![i] = u.node],
     stats |-> [acc.stats EXCEPT
                   !.totalPacketsGenerated = @ + u.generated,
                   !.maxQueueDepth =
                       IF u.generated = 1
                       THEN Max(@, Len(acc.nodes[i].packetQueue) + 1) ELSE @,
                   !.successCount = @ + u.delta.successCount,
                   !.success1st = @ + u.delta.success1st,
                   !.success2nd = @ + u.delta.success2nd,
                   !.success3rd = @ + u.delta.success3rd,
                   !.failureCount = @ + u.delta.failureCount,
                   !.totalLatency = @ + u.delta.totalLatency],
     timeline |-> [acc.timeline EXCEPT
                      ![i] = Append(@, TimelineCell(u.cellState, u.cellInfo,
                                                    collisionOccurring))]]

(* Faulty variant: the visit senses the channel on the nodes as the        *)
(* earlier visits of the tick left them.                                   *)
VisitFsmLiveChannel(acc, i, c, tick, arrive, r, ns0) ==
    FsmVisit(acc, i,
             NodeUpdate(acc.nodes[i], i, c, tick, i \in arrive, r[i],
                        PhysicalBusy(acc.nodes)),
             CollisionOccurring(acc.nodes))

VisitFsm(acc, i, c, tick, arrive, r, ns0) ==
    FsmVisit(acc, i,
             NodeUpdate(acc.nodes[i], i, c, tick, i \in arrive, r[i],
                        PhysicalBusy(ns0)),
             CollisionOccurring(ns0))

RECURSIVE FsmPhase(_, _, _, _, _, _, _, _)
FsmPhase(acc, order, k, c, tick, arrive, r, ns0) ==
    IF k > Len(order) THEN acc
    ELSE FsmPhase(VisitFsm(acc, order[k], c, tick, arrive, r, ns0),
                  order, k + 1, c, tick, arrive, r, ns0)

(* Phases 1, 2 and 3 with the nodes visited in the given orders *)
SequentialTick(ns0, st, tl, c, tick, vcsOrder, fsmOrder, arrive, r) ==
    FsmPhase([nodes |-> VcsPhase(MarkDoomed(ns0), vcsOrder, 1, c, ns0),
              stats |-> [ChannelStats(st, ns0) EXCEPT
                            !.collisionCount = @ + Cardinality(NewlyDoomed(ns0))],
              timeline |-> tl],
             fsmOrder, 1, c, tick, arrive, r, ns0)

Tick ==
    /\ pc = "run"
    /\ t < config.simDuration
    /\ \E arrive \in ArrivalChoices(config, stats) :
       \E r \in DrawChoices(nodes, config) :
          LET up == Updates(nodes, config, t, arrive, r)
          IN  /\ nodes' = [i \in DOMAIN nodes |-> up[i].node]
              /\ stats' = StatsAfter(stats, nodes, config, up)
              /\ logs' = LogsAfter(logs, nodes, config, t, up)
              /\ timeline' = PushCells(timeline, up, CollisionOccurring(nodes))
              /\ served' = served \o InIdOrder([i \in DOMAIN up |-> up[i].pops],
                                               0, LastId(config))
              /\ overlapped' =
                    [i \in DOMAIN nodes |->
                        IF up[i].node.state = TX_PREAMBLE /\ nodes[i].state # TX_PREAMBLE
                        THEN FALSE
                        ELSE overlapped[i]
                             \/ (i \in Transmitters(nodes) /\ CollisionOccurring(nodes))]
    /\ prev' = nodes
    /\ t' = t + 1
    /\ UNCHANGED <<config, pc>>

(* The loop is over: runSimulation returns timeline, logs, stats, duration *)
Return ==
    /\ pc = "run"
    /\ t >= config.simDuration
    /\ pc' = "done"
    /\ UNCHANGED <<config, t, nodes, stats, logs, timeline, served, overlapped, prev>>

Next == Tick \/ Return

Spec == Init /\ [][Next]_vars

----------------------------------------------------------------------------
(* What the history says *)
Ids == DOMAIN nodes

QueuedPackets == SumOver([i \in Ids |-> Len(nodes[i].packetQueue)], 0, LastId(config))

(* The log entries the last tick appended are those of tick t - 1. *)
LogsOf(i, tick) == {k \in 1..Len(logs) : logs[k].nodeId = i /\ logs[k].tick = tick}
IsSuccess(k) == logs[k].type = "SUCCESS"
IsRetry(k) == logs[k].type = "COLLISION" /\ logs[k].message[1] = "No ACK. Retrying (NB="
IsDrop(k) == logs[k].type = "DROP"
IsOutcome(k) == IsSuccess(k) \/ IsRetry(k) \/ IsDrop(k)
IsGenerated(k) == logs[k].type = "INFO" /\ logs[k].message[1] = "Packet generated (Queue: "

(* The packets generated so far, as <<node id, birth tick>> *)
GeneratedPackets == {<<logs[k].nodeId, logs[k].tick>> : k \in {j \in 1..Len(logs) : IsGenerated(j)}}

InQueue(i, b) == \E k \in 1..Len(nodes[i].packetQueue) : nodes[i].packetQueue[k] = b

TimesServed(i, b) == Cardinality({k \in 1..Len(served) : served[k][1] = i /\ served[k][2] = b})
ServedAs(bucket) == Cardinality({k \in 1..Len(served) : served[k][3] = bucket})

----------------------------------------------------------------------------
(* C1: after every tick exactly one of the four channel bins has been      *)
(* incremented, so the four bins add up to the number of ticks simulated   *)
(* so far, and to simDuration once the run has returned.                   *)
ChannelBins ==
    <<stats.channelIdleTicks, stats.channelTxTicks,
      stats.channelCollisionTicks, stats.channelBackoffTicks>>

C1_ChannelBinsSumToTicks ==
    /\ [](/\ ChannelBins[1] + ChannelBins[2] + ChannelBins[3] + ChannelBins[4] = t
          /\ pc = "done" => ChannelBins[1] + ChannelBins[2] + ChannelBins[3]
                             + ChannelBins[4] = config.simDuration)
    /\ [][t' = t + 1 =>
            \E b \in 1..4 :
                \A x \in 1..4 :
                    ChannelBins'[x] = ChannelBins[x] + (IF x = b THEN 1 ELSE 0)]_vars

(* A run has returned with ticks in every one of the four bins. *)
C1_Witness ==
    /\ pc = "done"
    /\ \A x \in 1..4 : ChannelBins[x] > 0

(* C2: packet conservation: every packet generated is either still queued  *)
(* at its node or was shifted off the queue exactly once, for a success or *)
(* a drop; the queue is never shifted while empty.                         *)
C2_PacketConservation ==
    /\ stats.totalPacketsGenerated
          = stats.successCount + stats.failureCount + QueuedPackets
    /\ stats.successCount + stats.failureCount <= stats.totalPacketsGenerated
    /\ Len(served) = stats.successCount + stats.failureCount
    /\ \A k \in 1..Len(served) :
          /\ served[k][2] # Undefined
          /\ <<served[k][1], served[k][2]>> \in GeneratedPackets
          /\ TimesServed(served[k][1], served[k][2]) = 1
          /\ ~InQueue(served[k][1], served[k][2])

(* A success and a drop have been counted while a packet is still queued. *)
C2_Witness ==
    /\ stats.successCount > 0
    /\ stats.failureCount > 0
    /\ QueuedPackets > 0

(* C3 as stated: when the run has returned, every packet generated has     *)
(* been counted exactly once, as a success or as a failure.                *)
C3_EveryPacketCountedAtReturn ==
    pc = "done" =>
        /\ \A p \in GeneratedPackets : TimesServed(p[1], p[2]) = 1
        /\ stats.success1st + stats.success2nd + stats.success3rd
              + stats.failureCount = stats.totalPacketsGenerated

(* C3 amended: a packet is counted at most once, in exactly one of         *)
(* success1st, success2nd, success3rd and failureCount, and it is counted  *)
(* in none of them exactly when it is still queued: the packets queued     *)
(* when the run returns are not counted.                                   *)
C3_PacketCountedOnceUnlessQueued ==
    /\ \A p \in GeneratedPackets :
          TimesServed(p[1], p[2]) = (IF InQueue(p[1], p[2]) THEN 0 ELSE 1)
    /\ stats.success1st = ServedAs("success1st")
    /\ stats.success2nd = ServedAs("success2nd")
    /\ stats.success3rd = ServedAs("success3rd")
    /\ stats.failureCount = ServedAs("failureCount")
    /\ stats.success1st + stats.success2nd + stats.success3rd + stats.failureCount
          = stats.totalPacketsGenerated - QueuedPackets

(* A run has returned with packets counted and a packet still queued. *)
C3_Witness ==
    /\ pc = "done"
    /\ QueuedPackets > 0
    /\ stats.successCount > 0
    /\ stats.failureCount > 0

(* C4: an attempt ends in success exactly when its node shared no tick of  *)
(* TX_PREAMBLE, TX_FC, TX_DATA or RX_ACK with another transmitter; one     *)
(* that did ends in a retry or a drop when RX_ACK is over.                 *)
AckEnds(i) == nodes[i].state = RX_ACK /\ nodes'[i].state # RX_ACK
NewLogs(i) == {k \in (Len(logs) + 1)..Len(logs') : logs'[k].nodeId = i}

C4_SuccessIffNoOverlap ==
    [][\A i \in Ids :
          AckEnds(i) =>
            LET success == \E k \in NewLogs(i) : logs'[k].type = "SUCCESS"
                retry == \E k \in NewLogs(i) :
                            /\ logs'[k].type = "COLLISION"
                            /\ logs'[k].message[1] = "No ACK. Retrying (NB="
                drop == \E k \in NewLogs(i) : logs'[k].type = "DROP"
                popped == Len(nodes'[i].packetQueue)
                            < Len(nodes[i].packetQueue)
                                + (IF \E k \in NewLogs(i) : logs'[k].type = "INFO" THEN 1 ELSE 0)
            IN  /\ success <=> ~overlapped'[i]
                /\ overlapped'[i] => (retry \/ drop)
                /\ success => (popped /\ stats'.successCount > stats.successCount)
                /\ ~(success /\ (retry \/ drop))]_vars

(* Attempts have ended in a success, in a retry and in a drop. *)
C4_Witness ==
    /\ \E k \in 1..Len(logs) : IsSuccess(k)
    /\ \E k \in 1..Len(logs) : IsRetry(k)
    /\ \E k \in 1..Len(logs) : IsDrop(k)

----------------------------------------------------------------------------
(* The timeline cell of node i at the given tick *)
Cell(i, tick) == timeline[i][tick + 1]
InFlightStates == {TX_PREAMBLE, TX_FC, TX_DATA, WAIT_RIFS, RX_ACK}
OutcomesFrom(i, tick) ==
    {k \in 1..Len(logs) : logs[k].nodeId = i /\ logs[k].tick >= tick /\ IsOutcome(k)}
(* The log entry of the first outcome of node i at or after the tick *)
FirstOutcomeFrom(i, tick) ==
    CHOOSE k \in OutcomesFrom(i, tick) : \A j \in OutcomesFrom(i, tick) : k <= j

(* C5 as stated: while a node is in WAIT_RIFS no other node treats the     *)
(* channel as free: none in SENSING draws a backoff, none in BACKOFF or    *)
(* BACKOFF_PAUSED decrements its counter, none enters TX_PREAMBLE.         *)
TreatsChannelAsFree(i) ==
    \/ nodes[i].state = SENSING /\ nodes'[i].state \in {BACKOFF, TX_PREAMBLE}
    \/ /\ nodes[i].state \in {BACKOFF, BACKOFF_PAUSED}
       /\ \/ nodes'[i].backoffCounter < nodes[i].backoffCounter
          \/ nodes'[i].state = TX_PREAMBLE
    \/ nodes[i].state # TX_PREAMBLE /\ nodes'[i].state = TX_PREAMBLE

C5_RifsExcludesOthers ==
    [][\A m \in Ids : \A i \in Ids :
          (t' = t + 1 /\ m # i /\ nodes[m].state = WAIT_RIFS)
              => ~TreatsChannelAsFree(i)]_vars

(* C6 as stated: two nodes, one packet each; node 1 is IDLE and gets its   *)
(* packet in a tick of node 0's first transmission.  Then node 1 stays in  *)
(* SENSING or BACKOFF_PAUSED until node 0's transaction is over, node 0's  *)
(* attempt succeeds, and node 1's first attempt succeeds.                  *)
ArrivesInFlight(a) ==
    /\ config.nodeCount = 2
    /\ stats.totalPacketsGenerated = 2
    /\ <<1, a>> \in GeneratedPackets
    /\ Cell(1, a).state = IDLE
    /\ Cell(0, a).state \in InFlightStates
    /\ OutcomesFrom(0, 0) = OutcomesFrom(0, a)

C6_NavSuppression ==
    \A a \in 0..(t - 1) :
        ArrivesInFlight(a) =>
            LET over == OutcomesFrom(0, a) # {}
                last == IF over THEN logs[FirstOutcomeFrom(0, a)].tick ELSE t - 1
            IN  /\ \A k \in (a + 1)..last :
                      Cell(1, k).state \in {SENSING, BACKOFF_PAUSED}
                /\ over => IsSuccess(FirstOutcomeFrom(0, a))
                /\ OutcomesFrom(1, a) # {} =>
                      /\ IsSuccess(FirstOutcomeFrom(1, a))
                      /\ stats.success1st = 2

(* C7 as stated: a node enters TX_PREAMBLE only from SENSING or from       *)
(* BACKOFF (never from BACKOFF_PAUSED), and from BACKOFF with the last     *)
(* count of its counter.                                                   *)
EntersPreamble(i) == nodes[i].state # TX_PREAMBLE /\ nodes'[i].state = TX_PREAMBLE

C7_PreambleOnlyFromSensingOrBackoff ==
    [][\A i \in Ids :
          EntersPreamble(i) =>
              /\ nodes[i].state \in {SENSING, BACKOFF}
              /\ nodes[i].state = BACKOFF => nodes[i].backoffCounter = 1]_vars

(* C7 amended: a node enters TX_PREAMBLE only from SENSING (its draw was   *)
(* 0), or from BACKOFF or BACKOFF_PAUSED in a tick in which it sees a free *)
(* channel with backoffCounter 1; the counter field is left at 1.          *)
C7_PreambleFromSensingBackoffOrPaused ==
    [][\A i \in Ids :
          EntersPreamble(i) =>
              /\ nodes[i].state \in {SENSING, BACKOFF, BACKOFF_PAUSED}
              /\ ~PhysicalBusy(nodes)
              /\ nodes[i].state = SENSING => nodes'[i].backoffCounter = 0
              /\ nodes[i].state \in {BACKOFF, BACKOFF_PAUSED} =>
                    /\ nodes[i].backoffCounter = 1
                    /\ nodes'[i].backoffCounter = 1]_vars

(* A node went from BACKOFF_PAUSED to TX_PREAMBLE in the last tick. *)
C7_Witness ==
    \E i \in Ids : prev[i].state = BACKOFF_PAUSED /\ nodes[i].state = TX_PREAMBLE

(* C8: a node in BACKOFF or BACKOFF_PAUSED that does not see a free        *)
(* channel in a tick (a node transmits, or its own NAV is not 0 after the  *)
(* NAV update of the tick) keeps its backoffCounter; the counter changes   *)
(* only in a tick with a free channel, and then by one.                    *)
SeesFreeChannel(i) ==
    /\ Transmitters(nodes) = {}
    /\ VcsUpdate(nodes[i], i, config, nodes).vcs = 0

C8_BackoffFrozenWhileBusy ==
    [][\A i \in Ids :
          (t' = t + 1 /\ nodes[i].state \in {BACKOFF, BACKOFF_PAUSED}) =>
              /\ ~SeesFreeChannel(i) =>
                    /\ nodes'[i].backoffCounter = nodes[i].backoffCounter
                    /\ nodes'[i].state = BACKOFF_PAUSED
              /\ nodes'[i].backoffCounter # nodes[i].backoffCounter =>
                    /\ SeesFreeChannel(i)
                    /\ nodes'[i].backoffCounter = nodes[i].backoffCounter - 1]_vars

(* A node counted down, was paused through a busy period with its counter  *)
(* kept, and the channel is physically idle again.                         *)
C8_Witness ==
    \E i \in Ids :
        /\ prev[i].state = BACKOFF_PAUSED
        /\ nodes[i].state = BACKOFF_PAUSED
        /\ nodes[i].backoffCounter = prev[i].backoffCounter
        /\ Transmitters(prev) # {}
        /\ Transmitters(nodes) = {}

(* The frame of one attempt, as timeline states *)
RECURSIVE Repeat(_, _)
Repeat(x, k) == IF k <= 0 THEN <<>> ELSE <<x>> \o Repeat(x, k - 1)
FrameCells(c) ==
    <<TX_PREAMBLE, TX_FC>> \o Repeat(TX_DATA, c.dataSlots)
        \o <<WAIT_RIFS, RX_ACK, RX_ACK>>
AirTime(c) == 3 + c.dataSlots + 2
FrameOccupies(i, first, last) ==
    /\ last - first + 1 = Len(FrameCells(config))
    /\ Len(timeline[i]) > last
    /\ \A k \in first..last : Cell(i, k).state = FrameCells(config)[k - first + 1]
    /\ Cell(i, first - 1).state \notin InFlightStates

SingleNodeInterval ==
    /\ config.nodeCount = 1
    /\ config.packetGenMode = "INTERVAL"
    /\ \A k \in 1..Len(logs) : logs[k].type # "VCS"

(* The counter value of the first "Start Backoff" entry: pe + the draw *)
FirstBackoff ==
    LET starts == {k \in 1..Len(logs) : logs[k].message[1] = "Start Backoff ("}
    IN  logs[CHOOSE k \in starts : \A j \in starts : k <= j].message[2]

(* C9 as stated: the first packet of a single-node INTERVAL run succeeds   *)
(* with latency pe + draw + (3 + dataSlots + 2); with pe=0, minBe=maxBe=0, *)
(* dataSlots=10, simDuration=50 the frame occupies ticks 1..15,            *)
(* success1st is 1 and totalLatency is 15.                                 *)
C9_FirstPacketLatency ==
    /\ (SingleNodeInterval /\ stats.successCount = 1) =>
          stats.totalLatency = FirstBackoff + AirTime(config)
    /\ (config = SinglePacketConfig /\ pc = "done") =>
          /\ FrameOccupies(0, 1, 15)
          /\ stats.success1st = 1
          /\ stats.totalLatency = 15

(* C9 amended: the latency is pe + draw + (3 + dataSlots + 2) + 1, the     *)
(* tick of IDLE -> SENSING included; in the scenario the frame occupies    *)
(* ticks 2..16, success1st is 1 and totalLatency is 16.                    *)
C9_FirstPacketLatencyPlusOne ==
    /\ (SingleNodeInterval /\ stats.successCount = 1) =>
          /\ stats.totalLatency = FirstBackoff + AirTime(config) + 1
          /\ FirstBackoff - config.pe \in 0..(Pow2(config.minBe) - 1)
          /\ stats.success1st = 1
          /\ served[1] = <<0, 0, "success1st">>
    /\ (config = SinglePacketConfig /\ pc = "done") =>
          /\ FrameOccupies(0, 2, 16)
          /\ stats.success1st = 1
          /\ stats.totalLatency = 16

(* The single-packet scenario has returned with its packet delivered. *)
C9_Witness ==
    /\ config = SinglePacketConfig
    /\ pc = "done"
    /\ stats.successCount = 1

(* C10 as stated: one node, INTERVAL mode, packetInterval larger than      *)
(* simDuration: no packet is generated, every tick is a channel-idle tick, *)
(* nothing succeeds or fails and every timeline cell is IDLE.              *)
NoSecondArrival ==
    /\ config.nodeCount = 1
    /\ config.packetGenMode = "INTERVAL"
    /\ config.packetInterval > config.simDuration

C10_TrivialIdle ==
    (NoSecondArrival /\ pc = "done") =>
        /\ stats.totalPacketsGenerated = 0
        /\ ChannelBins = <<config.simDuration, 0, 0, 0>>
        /\ stats.successCount = 0 /\ stats.failureCount = 0
        /\ \A k \in 0..(config.simDuration - 1) : Cell(0, k).state = IDLE

(* C10 amended: such a run generates exactly one packet, at t = 0; only    *)
(* the tick-0 cell shows the node IDLE before the packet is delivered, and *)
(* nothing collides or fails.  In the scenario (simDuration=10,            *)
(* dataSlots=10, pe=2, minBe=maxBe=0) the packet is still on the air at    *)
(* return: 2 idle, 2 backoff and 6 tx ticks, no success, no failure.       *)
C10_OnePacketAtTickZero ==
    /\ (NoSecondArrival /\ t >= 1) =>
          /\ stats.totalPacketsGenerated = 1
          /\ GeneratedPackets = {<<0, 0>>}
          /\ Cell(0, 0).state = IDLE
          /\ stats.failureCount = 0
          /\ stats.collisionCount = 0
          /\ stats.channelCollisionTicks = 0
          /\ stats.successCount <= 1
          /\ \A k \in 1..(t - 1) :
                Cell(0, k).state = IDLE =>
                    (stats.successCount = 1 /\ nodes[0].packetQueue = <<>>)
    /\ (config = TrivialIdleConfig /\ pc = "done") =>
          /\ ChannelBins = <<2, 6, 0, 2>>
          /\ stats.successCount = 0 /\ stats.failureCount = 0
          /\ [k \in 1..Len(timeline[0]) |-> timeline[0][k].state]
                = <<IDLE, SENSING, BACKOFF, BACKOFF, TX_PREAMBLE, TX_FC,
                    TX_DATA, TX_DATA, TX_DATA, TX_DATA>>

(* The trivial-idle scenario has returned. *)
C10_Witness ==
    /\ config = TrivialIdleConfig
    /\ pc = "done"
    /\ stats.totalPacketsGenerated = 1

----------------------------------------------------------------------------
(* C11: in INTERVAL mode every node gets a packet in tick b exactly when   *)
(* b % packetInterval = 0 (tick 0 included), whatever its state, so a run  *)
(* that has returned generated nodeCount * ceil(simDuration /              *)
(* packetInterval) packets.                                                *)
CeilDiv(a, b) == (a + b - 1) \div b

GeneratedLogs == {k \in 1..Len(logs) : IsGenerated(k)}

C11_IntervalArrivals ==
    config.packetGenMode = "INTERVAL" =>
        /\ GeneratedPackets =
              {<<i, b>> \in Ids \X (0..(t - 1)) : b % config.packetInterval = 0}
        /\ Cardinality(GeneratedLogs) = Cardinality(GeneratedPackets)
        /\ stats.totalPacketsGenerated = Cardinality(GeneratedPackets)
        /\ pc = "done" =>
              stats.totalPacketsGenerated
                  = config.nodeCount * CeilDiv(config.simDuration, config.packetInterval)

(* A run has returned in which a node got a packet after tick 0 in a      *)
(* state other than IDLE, and simDuration is no multiple of the interval. *)
C11_Witness ==
    /\ pc = "done"
    /\ config.packetGenMode = "INTERVAL"
    /\ config.simDuration % config.packetInterval # 0
    /\ \E k \in GeneratedLogs :
          /\ logs[k].tick > 0
          /\ Cell(logs[k].nodeId, logs[k].tick).state # IDLE

----------------------------------------------------------------------------
(* The tick in which node i last left SENSING or BACKOFF for TX_PREAMBLE   *)
(* (-1 if it never did): its "Start Backoff (0)" and "Backoff complete"    *)
(* entries.                                                                *)
PreambleEntries(i) ==
    {k \in 1..Len(logs) :
        /\ logs[k].nodeId = i
        /\ logs[k].type = "INFO"
        /\ \/ logs[k].message[1] = "Backoff complete, transmitting"
           \/ (logs[k].message[1] = "Start Backoff (" /\ logs[k].message[2] = 0)}

EnteredAt(i) ==
    IF PreambleEntries(i) = {} THEN -1
    ELSE LET ticks == {logs[k].tick : k \in PreambleEntries(i)}
         IN  CHOOSE m \in ticks : \A x \in ticks : x <= m

OverlapLogs(i) ==
    {k \in 1..Len(logs) :
        /\ logs[k].nodeId = i
        /\ logs[k].type = "COLLISION"
        /\ logs[k].message[1] = "Signal overlap detected"}

DropLogs(i) == {k \in 1..Len(logs) : logs[k].nodeId = i /\ IsDrop(k)}

(* C12: guaranteed collision.  With two nodes, INTERVAL mode,              *)
(* packetInterval 1000, pe 0, minBe = maxBe = 0, maxNb 0, dataSlots 3 and  *)
(* simDuration 40 the two only packets are sent fully aligned, both        *)
(* attempts fail and both packets are dropped: failureCount 2,             *)
(* successCount 0, collisionCount 2 (one per node), a Drop entry per node. *)
C12_GuaranteedCollision ==
    (config = GuaranteedCollisionConfig /\ pc = "done") =>
        /\ stats.failureCount = 2
        /\ stats.successCount = 0
        /\ stats.collisionCount = 2
        /\ stats.totalPacketsGenerated = 2
        /\ \A i \in Ids :
              /\ DropLogs(i) # {}
              /\ Cardinality(OverlapLogs(i)) = 1
              /\ Cardinality(PreambleEntries(i)) = 1
              /\ EnteredAt(i) = EnteredAt(0)
              /\ nodes[i].packetQueue = <<>>

(* The guaranteed-collision run has returned with its two drops logged. *)
C12_Witness ==
    /\ config = GuaranteedCollisionConfig
    /\ pc = "done"
    /\ \A i \in Ids : DropLogs(i) # {}

----------------------------------------------------------------------------
(* Nodes i and j are in the frame they started in the same tick. *)
AlignedInFlight(i, j) ==
    /\ i # j
    /\ nodes[i].state \in InFlightStates
    /\ nodes[j].state \in InFlightStates
    /\ EnteredAt(i) = EnteredAt(j)

BinStep(bin) == stats'[bin] - stats[bin]

(* C13 as stated: when two nodes enter TX_PREAMBLE in the same tick, every *)
(* tick from their first TX_PREAMBLE tick to the last tick of their ACK is *)
(* a collision tick: counted in channelCollisionTicks, not in              *)
(* channelTxTicks.                                                         *)
C13_CollisionUntilAckEnd ==
    [][\A i, j \in Ids :
          (AlignedInFlight(i, j) /\ t' = t + 1) =>
              /\ BinStep("channelCollisionTicks") = 1
              /\ BinStep("channelTxTicks") = 0]_vars

(* C13 amended: such nodes stay aligned, and every tick in which they are  *)
(* in TX_PREAMBLE, TX_FC, TX_DATA or RX_ACK is a collision tick, counted   *)
(* in channelCollisionTicks and shown as COLLISION in their cells; the     *)
(* RIFS tick between their data and their ACK is no collision tick: it is  *)
(* counted in channelTxTicks and their cells show WAIT_RIFS.               *)
C13_CollisionExceptRifs ==
    [][\A i, j \in Ids :
          (AlignedInFlight(i, j) /\ t' = t + 1) =>
              /\ nodes[i].state = nodes[j].state
              /\ nodes[i].txProgress = nodes[j].txProgress
              /\ nodes[i].state \in TxStates =>
                    /\ BinStep("channelCollisionTicks") = 1
                    /\ BinStep("channelTxTicks") = 0
                    /\ timeline'[i][t + 1].isCollision
                    /\ timeline'[i][t + 1].state = COLLISION
              /\ nodes[i].state = WAIT_RIFS =>
                    /\ BinStep("channelCollisionTicks") = 0
                    /\ BinStep("channelTxTicks") = 1
                    /\ ~timeline'[i][t + 1].isCollision
                    /\ timeline'[i][t + 1].state = WAIT_RIFS]_vars

(* Two nodes that started their frames in the same tick have ended them:   *)
(* the cells of both show five collision ticks around one RIFS tick.       *)
C13_Witness ==
    /\ config = GuaranteedCollisionConfig
    /\ t >= 10
    /\ \A i \in Ids :
          /\ \A k \in {2, 3, 4, 5, 6, 8, 9} : Cell(i, k).isCollision
          /\ Cell(i, 7).state = WAIT_RIFS
    /\ stats.channelCollisionTicks = 7

----------------------------------------------------------------------------
(* The packet node i is serving: what the log says of it.  LastSettled is  *)
(* the index of the last SUCCESS or DROP entry of the node (0 if none);    *)
(* the attempts and the failed attempts of the packet at the head of the   *)
(* queue are the entries to TX_PREAMBLE and the retries logged after it.   *)
LastSettled(i) ==
    LET done == {k \in 1..Len(logs) :
                    logs[k].nodeId = i /\ (IsSuccess(k) \/ IsDrop(k))}
    IN  IF done = {} THEN 0 ELSE CHOOSE m \in done : \A k \in done : k <= m

Attempts(i) == Cardinality({k \in PreambleEntries(i) : k > LastSettled(i)})

FailedAttempts(i) ==
    Cardinality({k \in 1..Len(logs) :
                    logs[k].nodeId = i /\ IsRetry(k) /\ k > LastSettled(i)})

NewDrops(i) == {k \in NewLogs(i) : logs'[k].type = "DROP"}
NewSuccesses(i) == {k \in NewLogs(i) : logs'[k].type = "SUCCESS"}
GeneratedNow(i) ==
    IF \E k \in NewLogs(i) : logs'[k].message[1] = "Packet generated (Queue: "
    THEN 1 ELSE 0

(* C14: a packet is dropped exactly when its (maxNb + 1)-th attempt fails. *)
(* No packet is attempted more than maxNb + 1 times or dropped after fewer *)
(* failed attempts; a drop writes one DROP entry and adds one to           *)
(* failureCount, and the node goes through FAILED to its next packet with  *)
(* nb = 0 and be = minBe.                                                  *)
C14_DropOnLastAttempt ==
    [][t' = t + 1 =>
        /\ \A i \in Ids :
              /\ Attempts(i) <= config.maxNb + 1
              /\ FailedAttempts(i) <= config.maxNb
              /\ NewDrops(i) # {} => AckEnds(i)
              /\ AckEnds(i) =>
                    /\ NewDrops(i) # {}
                          <=> (overlapped'[i] /\ FailedAttempts(i) = config.maxNb)
                    /\ NewDrops(i) # {} =>
                          /\ Cardinality(NewDrops(i)) = 1
                          /\ Attempts(i) = config.maxNb + 1
                          /\ nodes'[i].state = FAILED
                          /\ nodes'[i].nb = 0
                          /\ nodes'[i].be = config.minBe
                          /\ Len(nodes'[i].packetQueue)
                                = Len(nodes[i].packetQueue) + GeneratedNow(i) - 1
              /\ nodes[i].state = FAILED =>
                    /\ nodes'[i].state
                          = (IF nodes'[i].packetQueue # <<>> THEN SENSING ELSE IDLE)
                    /\ nodes'[i].nb = 0
                    /\ nodes'[i].be = config.minBe
        /\ stats'.failureCount - stats.failureCount
              = Cardinality({i \in Ids : NewDrops(i) # {}})]_vars

(* After one or more retries a node dropped a packet, and it has since     *)
(* entered TX_PREAMBLE with the next one.                                  *)
C14_Witness ==
    /\ config.maxNb >= 1
    /\ \E i \in Ids :
          /\ DropLogs(i) # {}
          /\ \E d \in DropLogs(i) : \E k \in PreambleEntries(i) : k > d

----------------------------------------------------------------------------
(* C15: between ticks every node has 0 <= nb <= maxNb.  The step that      *)
(* takes nb to maxNb + 1 is the end of RX_ACK of a doomed attempt with     *)
(* nb = maxNb: it drops the packet and leaves nb = 0.                      *)
NbInRange == \A i \in Ids : nodes[i].nb \in 0..config.maxNb

C15_NbWithinMaxNb ==
    /\ [](NbInRange)
    /\ [][\A i \in Ids :
            /\ nodes'[i].nb \in {0, nodes[i].nb, nodes[i].nb + 1}
            /\ (AckEnds(i) /\ nodes[i].isCurrentTxDoomed) =>
                  IF nodes[i].nb = config.maxNb
                  THEN NewDrops(i) # {} /\ nodes'[i].nb = 0
                  ELSE NewDrops(i) = {} /\ nodes'[i].nb = nodes[i].nb + 1]_vars

(* A node that had used up its retries (nb = maxNb >= 1) has dropped its   *)
(* packet: it is in FAILED with nb = 0.                                    *)
C15_Witness ==
    /\ config.maxNb >= 1
    /\ \E i \in Ids :
          /\ prev[i].nb = config.maxNb
          /\ prev[i].state = RX_ACK
          /\ nodes[i].state = FAILED
          /\ nodes[i].nb = 0

----------------------------------------------------------------------------
(* C16: minBe <= be <= maxBe for every node in every state, and be = minBe *)
(* when the node starts on a new packet: after IDLE -> SENSING, after a    *)
(* success and after a drop.                                               *)
BeInRange == \A i \in Ids : nodes[i].be \in config.minBe..config.maxBe

C16_BeWithinBounds ==
    /\ [](config.minBe \in 0..config.maxBe => BeInRange)
    /\ [][\A i \in Ids :
            (\/ (nodes[i].state = IDLE /\ nodes'[i].state = SENSING)
             \/ NewSuccesses(i) # {}
             \/ NewDrops(i) # {}) => nodes'[i].be = config.minBe]_vars

(* With minBe < maxBe a node has retried at be = maxBe (the cap held) and  *)
(* has then started on a new packet at be = minBe.                         *)
C16_Witness ==
    /\ config.minBe < config.maxBe
    /\ \E i \in Ids :
          /\ \E k \in 1..Len(logs) :
                /\ logs[k].nodeId = i
                /\ IsRetry(k)
                /\ logs[k].message[2] >= 2
                /\ logs[k].message[4] = config.maxBe
                /\ k < LastSettled(i)
          /\ nodes[i].be = config.minBe

----------------------------------------------------------------------------
(* C17: isCurrentTxDoomed goes from false to true only in a tick the node  *)
(* starts in TX_PREAMBLE, TX_FC, TX_DATA or RX_ACK, and it is false when   *)
(* the node has just entered TX_PREAMBLE, from SENSING and from BACKOFF    *)
(* alike.                                                                  *)
C17_DoomedOnlyWhileTransmitting ==
    [][\A i \in Ids :
          /\ (~nodes[i].isCurrentTxDoomed /\ nodes'[i].isCurrentTxDoomed) =>
                /\ nodes[i].state \in TxStates
                /\ Cardinality({j \in Ids : nodes[j].state \in TxStates}) > 1
          /\ EntersPreamble(i) => ~nodes'[i].isCurrentTxDoomed]_vars

(* A node whose last attempt was doomed has just entered TX_PREAMBLE again *)
(* from SENSING, another one from BACKOFF or BACKOFF_PAUSED.               *)
DoomedReentry(from) ==
    \E i \in Ids :
        /\ prev[i].isCurrentTxDoomed
        /\ prev[i].state \in from
        /\ nodes[i].state = TX_PREAMBLE

C17_Witness ==
    /\ DoomedReentry({SENSING})
    /\ \E k \in 1..Len(logs) :
          /\ logs[k].message[1] = "Backoff complete, transmitting"
          /\ \E j \in 1..(k - 1) : logs[j].nodeId = logs[k].nodeId /\ IsRetry(j)

----------------------------------------------------------------------------
(* C18: a node leaves IDLE only in a tick in whose step its queue is not   *)
(* empty, and it enters IDLE only at the end of a successful RX_ACK or     *)
(* from FAILED, and only with an empty queue; no other state leads to      *)
(* IDLE.                                                                   *)
C18_IdleLifecycle ==
    [][\A i \in Ids :
          t' = t + 1 =>
              /\ (nodes[i].state = IDLE /\ nodes'[i].state # IDLE) =>
                    /\ nodes'[i].packetQueue # <<>>
                    /\ nodes'[i].state = SENSING
              /\ (nodes[i].state = IDLE /\ nodes'[i].state = IDLE) =>
                    nodes'[i].packetQueue = <<>>
              /\ (nodes[i].state # IDLE /\ nodes'[i].state = IDLE) =>
                    /\ nodes[i].state \in {RX_ACK, FAILED}
                    /\ nodes[i].state = RX_ACK => NewSuccesses(i) # {}
                    /\ nodes[i].state = FAILED => LastSettled(i) \in DropLogs(i)
                    /\ nodes'[i].packetQueue = <<>>
              /\ (nodes[i].state = FAILED \/ NewSuccesses(i) # {}) =>
                    /\ nodes'[i].state = IDLE <=> nodes'[i].packetQueue = <<>>
                    /\ nodes'[i].state = SENSING <=> nodes'[i].packetQueue # <<>>]_vars

(* In one run a node has come back to IDLE at the end of a successful      *)
(* RX_ACK and a node has come back to IDLE from FAILED after a drop.       *)
C18_Witness ==
    /\ \E k \in 1..Len(logs) :
          /\ IsSuccess(k)
          /\ logs[k].tick + 1 < t
          /\ Cell(logs[k].nodeId, logs[k].tick + 1).state = IDLE
    /\ \E k \in 1..Len(logs) :
          /\ IsDrop(k)
          /\ logs[k].tick + 2 < t
          /\ Cell(logs[k].nodeId, logs[k].tick + 1).state = FAILED
          /\ Cell(logs[k].nodeId, logs[k].tick + 2).state = IDLE

----------------------------------------------------------------------------
(* C19: success1st + success2nd + success3rd = successCount after every    *)
(* tick, and a success adds one to the bucket of the retries its packet    *)
(* has had: none -> success1st, one -> success2nd, two or more ->          *)
(* success3rd.                                                             *)
BucketOf(retries) ==
    IF retries = 0 THEN "success1st"
    ELSE IF retries = 1 THEN "success2nd"
    ELSE "success3rd"

Succeeding == {i \in Ids : NewSuccesses(i) # {}}

C19_SuccessBuckets ==
    /\ [](stats.success1st + stats.success2nd + stats.success3rd
              = stats.successCount)
    /\ [][/\ \A i \in Succeeding : nodes[i].nb = FailedAttempts(i)
          /\ \A b \in {"success1st", "success2nd", "success3rd"} :
                stats'[b] - stats[b]
                    = Cardinality({i \in Succeeding : BucketOf(FailedAttempts(i)) = b})
          /\ stats'.successCount - stats.successCount = Cardinality(Succeeding)]_vars

(* A packet was delivered on its fourth attempt (nb = 3) in the last tick  *)
(* and counted in success3rd.                                              *)
C19_Witness ==
    /\ stats.success3rd >= 1
    /\ \E i \in Ids :
          /\ prev[i].nb = 3
          /\ prev[i].state = RX_ACK
          /\ \E k \in LogsOf(i, t - 1) : IsSuccess(k)

----------------------------------------------------------------------------
(* C20: the timeline cell of a node and a tick has isCollision = true, and *)
(* state COLLISION, exactly when the node starts the tick in TX_PREAMBLE,  *)
(* TX_FC, TX_DATA or RX_ACK and at least two nodes do.                     *)
TransmittingAt == {j \in Ids : nodes[j].state \in TxStates}

C20_CollisionCells ==
    /\ [][\A i \in Ids :
            t' = t + 1 =>
                /\ timeline'[i][t + 1].isCollision
                      <=> (i \in TransmittingAt /\ Cardinality(TransmittingAt) >= 2)
                /\ timeline'[i][t + 1].isCollision
                      <=> timeline'[i][t + 1].state = COLLISION
                /\ SubSeq(timeline'[i], 1, t) = timeline[i]]_vars
    /\ [](\A i \in Ids : Len(timeline[i]) = t)

(* In a collision tick the cells of the transmitters are marked and the    *)
(* cell of a node that was backing off or sensing is not.                  *)
C20_Witness ==
    \E k \in 0..(t - 1) : \E i, j \in Ids :
        /\ Cell(i, k).isCollision
        /\ Cell(i, k).state = COLLISION
        /\ ~Cell(j, k).isCollision
        /\ Cell(j, k).state \in {SENSING, BACKOFF, BACKOFF_PAUSED}

----------------------------------------------------------------------------
(* C21: the timeline row of every node grows by one cell per tick, in tick *)
(* order: after t ticks each of the nodeCount rows has length t, and at    *)
(* return each has length simDuration.                                     *)
C21_TimelineGrowth ==
    /\ [](/\ DOMAIN timeline = 0..(config.nodeCount - 1)
          /\ \A i \in DOMAIN timeline : Len(timeline[i]) = t
          /\ pc = "done" =>
                \A i \in DOMAIN timeline : Len(timeline[i]) = config.simDuration)
    /\ [][\A i \in DOMAIN timeline :
            IF t' = t + 1
            THEN /\ Len(timeline'[i]) = Len(timeline[i]) + 1
                 /\ SubSeq(timeline'[i], 1, Len(timeline[i])) = timeline[i]
            ELSE timeline'[i] = timeline[i]]_vars

(* A run of several nodes has returned after ticks in which a node idled. *)
C21_Witness ==
    /\ pc = "done"
    /\ config.nodeCount >= 2
    /\ \E i \in Ids : \E k \in 1..(t - 1) : Cell(i, k).state = IDLE

----------------------------------------------------------------------------
(* C22: the ticks of the log never decrease; within a tick the entries of  *)
(* the channel check ("Signal overlap detected") come before those of the  *)
(* VCS update, which come before those of the state machines; within each  *)
(* of the three the node ids never decrease.                               *)
LogPhase(k) ==
    IF logs[k].type = "COLLISION" /\ logs[k].message[1] = "Signal overlap detected"
    THEN 1
    ELSE IF logs[k].type = "VCS" THEN 2 ELSE 3

C22_LogOrdering ==
    \A k \in 1..(Len(logs) - 1) :
        LET a == logs[k]
            b == logs[k + 1]
        IN  /\ a.tick <= b.tick
            /\ b.tick < t
            /\ a.tick = b.tick =>
                  /\ LogPhase(k) <= LogPhase(k + 1)
                  /\ LogPhase(k) = LogPhase(k + 1) => a.nodeId <= b.nodeId

(* One tick has entries of the three kinds: two overlap entries, a VCS     *)
(* entry and entries of the state machines of several nodes.               *)
C22_Witness ==
    \E x \in 0..(t - 1) :
        LET at(ph) == {k \in 1..Len(logs) : logs[k].tick = x /\ LogPhase(k) = ph}
        IN  /\ Cardinality({logs[k].nodeId : k \in at(1)}) >= 2
            /\ at(2) # {}
            /\ Cardinality({logs[k].nodeId : k \in at(3)}) >= 2

----------------------------------------------------------------------------
(* C23: an attempt, once in TX_PREAMBLE, runs through 1 tick of            *)
(* TX_PREAMBLE, 1 of TX_FC, dataSlots of TX_DATA, 1 of WAIT_RIFS and 2 of  *)
(* RX_ACK without a break, whatever collides, arrives or changes the NAV,  *)
(* and only then ends in a success, a retry or a drop.                     *)
NewOutcomes(i) ==
    {k \in NewLogs(i) :
        \/ logs'[k].type \in {"SUCCESS", "DROP"}
        \/ (logs'[k].type = "COLLISION"
               /\ logs'[k].message[1] = "No ACK. Retrying (NB=")}

(* The tick of its frame node i is in: 1 .. AirTime, from what it holds *)
FramePosition(i) ==
    CASE nodes[i].state = TX_PREAMBLE -> 1
      [] nodes[i].state = TX_FC -> 2
      [] nodes[i].state = TX_DATA -> 3 + nodes[i].txProgress
      [] nodes[i].state = WAIT_RIFS -> 3 + config.dataSlots
      [] nodes[i].state = RX_ACK -> 4 + config.dataSlots + nodes[i].txProgress

C23_FrameRunsThrough ==
    [][\A i \in Ids :
          t' = t + 1 =>
              IF nodes[i].state \in InFlightStates
              THEN /\ FramePosition(i) = t - EnteredAt(i)
                   /\ FramePosition(i) \in 1..AirTime(config)
                   /\ IF FramePosition(i) < AirTime(config)
                      THEN /\ nodes'[i].state \in InFlightStates
                           /\ NewOutcomes(i) = {}
                           /\ nodes'[i].state
                                 = FrameCells(config)[FramePosition(i) + 1]
                      ELSE /\ nodes'[i].state \in {IDLE, SENSING, FAILED}
                           /\ Cardinality(NewOutcomes(i)) = 1
              ELSE NewOutcomes(i) = {}]_vars

(* A frame with several data slots has run to its end through a collision *)
(* and through the arrival of a packet.                                    *)
C23_Witness ==
    /\ config.dataSlots >= 2
    /\ \E i \in Ids :
          /\ prev[i].state = RX_ACK
          /\ nodes[i].state # RX_ACK
          /\ prev[i].isCurrentTxDoomed
          /\ \E k \in GeneratedLogs :
                /\ logs[k].nodeId = i
                /\ logs[k].tick > EnteredAt(i)

----------------------------------------------------------------------------
(* Node j decoded the frame control of the frame of node i at tick f, no   *)
(* other node has been on the air since, and j has kept its NAV: it has    *)
(* been sensing or backing off from f on (no IDLE -> SENSING, no retry).   *)
QuietStates == {IDLE, SENSING, BACKOFF, BACKOFF_PAUSED, FAILED}
DeferringStates == {SENSING, BACKOFF, BACKOFF_PAUSED}

DecodedCleanFc(j, i, f) ==
    /\ i # j
    /\ f >= 0
    /\ f < t
    /\ \E k \in LogsOf(j, f) :
          logs[k].type = "VCS" /\ logs[k].message[1] = "Decoded FC, NAV set to "
    /\ Cell(i, f).state = TX_FC
    /\ \A x \in f..(t - 1) :
          /\ Cell(j, x).state \in DeferringStates
          /\ \A k \in Ids \ {i} : Cell(k, x).state \in QuietStates
    /\ nodes[j].state \in DeferringStates
    /\ \A k \in Ids \ {i} : nodes[k].state \in QuietStates

(* The NAV the state machine of node j reads in the tick that comes *)
NavSeen(j) == Perceived(nodes, config)[j].vcs

(* C25: the NAV set on a clean frame control is the rest of the            *)
(* transaction: if nothing else rewrites it, the state machine of the      *)
(* listening node reads a NAV above 0 in every remaining tick of the       *)
(* transaction (TX_DATA, WAIT_RIFS, both RX_ACK ticks) and 0 in the first  *)
(* tick after it.                                                          *)
C25_NavCoversTransaction ==
    \A i, j \in Ids :
        t < config.simDuration =>
            /\ (/\ nodes[i].state \in {TX_DATA, WAIT_RIFS, RX_ACK}
                /\ DecodedCleanFc(j, i, EnteredAt(i) + 2)) => NavSeen(j) > 0
            /\ (/\ prev[i].state = RX_ACK
                /\ nodes[i].state \in QuietStates
                /\ DecodedCleanFc(j, i, EnteredAt(i) + 2)) => NavSeen(j) = 0

----------------------------------------------------------------------------
(* C26: within a tick the NAV update and the step of a node read only the  *)
(* channel flags of the tick and the fields of the node, so visiting the   *)
(* nodes in any other order in the NAV phase or in the FSM phase, with the *)
(* same draws, gives the same nodes, the same timeline cells and the same  *)
(* stats as the ascending order of the loop.                               *)
VisitOrders ==
    {o \in [1..config.nodeCount -> Ids] : \A a, b \in 1..config.nodeCount :
                                              o[a] = o[b] => a = b}

AscendingOrder == [k \in 1..config.nodeCount |-> k - 1]

TickIn(vcsOrder, fsmOrder, arrive, r) ==
    SequentialTick(nodes, stats, timeline, config, t, vcsOrder, fsmOrder, arrive, r)

C26_VisitOrderIrrelevant ==
    /\ []((pc = "run" /\ t < config.simDuration) =>
            \A arrive \in ArrivalChoices(config, stats) :
            \A r \in DrawChoices(nodes, config) :
            \A vcsOrder \in VisitOrders : \A fsmOrder \in VisitOrders :
                TickIn(vcsOrder, fsmOrder, arrive, r)
                    = TickIn(AscendingOrder, AscendingOrder, arrive, r))
    /\ [][t' = t + 1 =>
            \E arrive \in ArrivalChoices(config, stats) :
            \E r \in DrawChoices(nodes, config) :
                TickIn(AscendingOrder, AscendingOrder, arrive, r)
                    = [nodes |-> nodes', stats |-> stats', timeline |-> timeline']]_vars

(* Three nodes retry, and two or more of them sense a free channel in the  *)
(* coming tick: a node that read the state an earlier visit left would see *)
(* a busy channel after a draw of 0.                                       *)
C26_Witness ==
    /\ config.nodeCount = 3
    /\ pc = "run"
    /\ t < config.simDuration
    /\ Cardinality({i \in Ids :
                       /\ nodes[i].state = SENSING
                       /\ ChannelFree(Perceived(nodes, config)[i], PhysicalBusy(nodes))}) >= 2
    /\ \E i \in Ids : nodes[i].nb >= 1

----------------------------------------------------------------------------
(* C27 as stated: the state of the timeline cell of a node and a tick is   *)
(* the state the node had at the start of the tick, but for the cell of a  *)
(* transmitter in a collision tick, which shows COLLISION.                 *)
NewCell(i) == timeline'[i][t + 1]
CollidesNow(i) == i \in TransmittingAt /\ Cardinality(TransmittingAt) >= 2

C27_CellShowsStartLabel ==
    [][\A i \in Ids :
          t' = t + 1 =>
              NewCell(i).state
                  = (IF CollidesNow(i) THEN COLLISION ELSE nodes[i].state)]_vars

(* C27 amended: there is a second exception: the cell of a node that       *)
(* starts the tick in BACKOFF_PAUSED and sees a free channel shows BACKOFF *)
(* (the node resumes), whether it goes on to BACKOFF or to TX_PREAMBLE.    *)
C27_CellShowsStartLabelOrResume ==
    [][\A i \in Ids :
          t' = t + 1 =>
              NewCell(i).state
                  = (IF CollidesNow(i) THEN COLLISION
                     ELSE IF nodes[i].state = BACKOFF_PAUSED /\ SeesFreeChannel(i)
                          THEN BACKOFF
                          ELSE nodes[i].state)]_vars

(* A paused node has resumed with a counter above 1: the cell of the tick  *)
(* shows BACKOFF, the state it took, and not BACKOFF_PAUSED, the state it  *)
(* had; it has since entered TX_PREAMBLE.                                  *)
C27_Witness ==
    \E i \in Ids : \E x \in 1..(t - 1) :
        /\ Cell(i, x - 1).state = BACKOFF_PAUSED
        /\ Cell(i, x).state = BACKOFF
        /\ Cell(i, x).info >= 2
        /\ nodes[i].state = TX_PREAMBLE

----------------------------------------------------------------------------
(* C28: collisionCount counts doomed attempts, not ticks: an attempt that  *)
(* overlaps adds one in its first overlapping tick and nothing after, so   *)
(* after every tick collisionCount is the number of retries logged plus    *)
(* failureCount plus the number of nodes inside an attempt (TX_PREAMBLE to *)
(* RX_ACK) with the doomed flag set.                                       *)
RetriesLogged == Cardinality({k \in 1..Len(logs) : IsRetry(k)})

DoomedInFlight ==
    {i \in Ids : nodes[i].state \in InFlightStates /\ nodes[i].isCurrentTxDoomed}

C28_CollisionCountPerAttempt ==
    /\ [](stats.collisionCount
              = RetriesLogged + stats.failureCount + Cardinality(DoomedInFlight))
    /\ [][t' = t + 1 =>
            stats'.collisionCount - stats.collisionCount
                = Cardinality({i \in Ids : CollidesNow(i) /\ ~overlapped[i]})]_vars

(* Attempts have been retried and dropped, and an attempt that overlapped  *)
(* more than one tick ago is still on the air.                             *)
C28_Witness ==
    /\ RetriesLogged >= 1
    /\ stats.failureCount >= 1
    /\ \E i \in DoomedInFlight : nodes[i].state \in {TX_DATA, WAIT_RIFS, RX_ACK}

----------------------------------------------------------------------------
(* C29: a node that draws backoffCounter = c in SENSING enters TX_PREAMBLE *)
(* in that tick when c = 0; otherwise it spends c channel-free ticks in    *)
(* BACKOFF, its cells showing c, c - 1, ..., 1, and enters TX_PREAMBLE in  *)
(* the tick in which it sees a free channel with counter 1.  It never      *)
(* holds or shows a counter of 0: in BACKOFF and BACKOFF_PAUSED            *)
(* backoffCounter >= 1.                                                    *)
BackoffStates == {BACKOFF, BACKOFF_PAUSED}

StartBackoffLogs(i) ==
    {k \in 1..Len(logs) : logs[k].nodeId = i /\ logs[k].message[1] = "Start Backoff ("}

LastStartBackoff(i) ==
    logs[CHOOSE k \in StartBackoffLogs(i) : \A j \in StartBackoffLogs(i) : j <= k]

NewStartBackoff(i) == {k \in NewLogs(i) : logs'[k].message[1] = "Start Backoff ("}

(* The ticks from first to last in which the counter shown in the cell of  *)
(* node i was used up: the next cell shows less, or the node went on air.  *)
CountedTicks(tl, first, last) ==
    {x \in first..last :
        /\ tl[x + 1].state = BACKOFF
        /\ x < last => tl[x + 2].info = tl[x + 1].info - 1}

C29_BackoffCountsFromDraw ==
    /\ [](\A i \in Ids :
            /\ nodes[i].state \in BackoffStates => nodes[i].backoffCounter >= 1
            /\ \A x \in 1..Len(timeline[i]) :
                  timeline[i][x].state \in BackoffStates => timeline[i][x].info >= 1)
    /\ [][\A i \in Ids :
            t' = t + 1 =>
              /\ \A k \in NewStartBackoff(i) :
                    /\ nodes[i].state = SENSING
                    /\ SeesFreeChannel(i)
                    /\ IF logs'[k].message[2] = 0
                       THEN nodes'[i].state = TX_PREAMBLE
                       ELSE /\ nodes'[i].state = BACKOFF
                            /\ nodes'[i].backoffCounter = logs'[k].message[2]
              /\ (nodes[i].state \in BackoffStates /\ SeesFreeChannel(i)) =>
                    /\ NewCell(i).state = BACKOFF
                    /\ NewCell(i).info = nodes[i].backoffCounter
                    /\ IF nodes[i].backoffCounter > 1
                       THEN /\ nodes'[i].state = BACKOFF
                            /\ nodes'[i].backoffCounter = nodes[i].backoffCounter - 1
                       ELSE nodes'[i].state = TX_PREAMBLE
              /\ (nodes[i].state \in BackoffStates /\ nodes'[i].state = TX_PREAMBLE) =>
                    LET c == LastStartBackoff(i).message[2]
                        s == LastStartBackoff(i).tick
                    IN  /\ c >= 1
                        /\ {timeline'[i][x + 1].info : x \in (s + 1)..t} = 1..c
                        /\ \A x \in (s + 1)..(t - 1) :
                              timeline'[i][x + 2].info <= timeline'[i][x + 1].info
                        /\ Cardinality(CountedTicks(timeline'[i], s + 1, t)) = c]_vars

(* A node that drew a counter of 2 or more was paused on its way down and  *)
(* has entered TX_PREAMBLE from BACKOFF.                                   *)
C29_Witness ==
    \E i \in Ids :
        /\ prev[i].state \in BackoffStates
        /\ nodes[i].state = TX_PREAMBLE
        /\ LastStartBackoff(i).message[2] >= 2
        /\ \E x \in LastStartBackoff(i).tick..(t - 1) :
              Cell(i, x).state = BACKOFF_PAUSED

----------------------------------------------------------------------------
(* C30: a node enters TX_PREAMBLE only in a tick in which no node is in    *)
(* TX_PREAMBLE, TX_FC, TX_DATA or RX_ACK.  So two nodes that are in those  *)
(* states in the same tick are in the same state with equal txProgress     *)
(* (they started in the same tick), or one is in RX_ACK and the other in   *)
(* TX_PREAMBLE or TX_FC (it started in the WAIT_RIFS tick of the first);   *)
(* a TX_PREAMBLE never overlaps the TX_DATA of another node.               *)
Aligned(i, j) ==
    /\ nodes[i].state = nodes[j].state
    /\ nodes[i].txProgress = nodes[j].txProgress
    /\ EnteredAt(i) = EnteredAt(j)

(* Node j started in the WAIT_RIFS tick of the frame node i is ending *)
StartedInRifsOf(j, i) ==
    /\ nodes[i].state = RX_ACK
    /\ \/ (nodes[i].txProgress = 0 /\ nodes[j].state = TX_PREAMBLE)
       \/ (nodes[i].txProgress = 1 /\ nodes[j].state = TX_FC)
    /\ EnteredAt(j) = EnteredAt(i) + AirTime(config) - 2

C30_CarrierSenseAlignment ==
    /\ [](\A i, j \in TransmittingAt :
            /\ i # j => (Aligned(i, j) \/ StartedInRifsOf(j, i) \/ StartedInRifsOf(i, j))
            /\ ~(nodes[i].state = TX_PREAMBLE /\ nodes[j].state = TX_DATA))
    /\ [][\A i \in Ids :
            (t' = t + 1 /\ EntersPreamble(i)) => TransmittingAt = {}]_vars

(* Two nodes overlap out of step: one is in the last tick of its RX_ACK,   *)
(* the other, which started in its WAIT_RIFS tick, is in TX_FC.            *)
C30_Witness ==
    \E i, j \in Ids :
        /\ nodes[i].state = RX_ACK
        /\ nodes[i].txProgress = 1
        /\ nodes[j].state = TX_FC

----------------------------------------------------------------------------
(* C31: between ticks a node in IDLE has an empty queue, and a node in     *)
(* SENSING, BACKOFF, BACKOFF_PAUSED, TX_PREAMBLE, TX_FC, TX_DATA,          *)
(* WAIT_RIFS or RX_ACK has a queue that is not empty and whose head is the *)
(* packet it is serving: the head stays until the success or the drop that *)
(* takes it off the queue and counts it.                                   *)
ServingStates == DeferringStates \cup InFlightStates

C31_QueueMatchesLabel ==
    /\ [](\A i \in Ids :
            /\ nodes[i].state = IDLE => nodes[i].packetQueue = <<>>
            /\ nodes[i].state \in ServingStates => nodes[i].packetQueue # <<>>)
    /\ [][\A i \in Ids :
            (t' = t + 1 /\ nodes[i].state \in ServingStates) =>
                IF NewSuccesses(i) # {} \/ NewDrops(i) # {}
                THEN /\ nodes[i].state = RX_ACK
                     /\ Len(served') = Len(served) + Cardinality(Succeeding)
                                          + Cardinality({j \in Ids : NewDrops(j) # {}})
                     /\ \E k \in (Len(served) + 1)..Len(served') :
                           /\ served'[k][1] = i
                           /\ served'[k][2] = Head(nodes[i].packetQueue)
                     /\ Tail(nodes[i].packetQueue)
                           = SubSeq(nodes'[i].packetQueue, 1,
                                    Len(nodes[i].packetQueue) - 1)
                ELSE /\ nodes'[i].state \in ServingStates
                     /\ Head(nodes'[i].packetQueue) = Head(nodes[i].packetQueue)]_vars

(* A node with a second packet waiting has delivered the first and is on   *)
(* the air with the second, while another node idles.                      *)
C31_Witness ==
    \E i, j \in Ids :
        /\ nodes[i].state \in InFlightStates
        /\ \E k \in 1..Len(served) :
              served[k][1] = i /\ served[k][2] < Head(nodes[i].packetQueue)
        /\ nodes[j].state = IDLE
        /\ \E k \in 1..Len(served) : served[k][1] = j

----------------------------------------------------------------------------
(* C32: between ticks every node has be = min(minBe + nb, maxBe): a failed *)
(* attempt raises the exponent by one up to maxBe, and a success or a drop *)
(* takes it back to minBe and nb to 0.                                     *)
C32_BeTracksNb ==
    /\ [](\A i \in Ids :
            nodes[i].be = Min(config.minBe + nodes[i].nb, config.maxBe))
    /\ [][\A i \in Ids :
            /\ (NewSuccesses(i) # {} \/ NewDrops(i) # {}) =>
                  (nodes'[i].nb = 0 /\ nodes'[i].be = config.minBe)
            /\ (AckEnds(i) /\ NewSuccesses(i) = {} /\ NewDrops(i) = {}) =>
                  /\ nodes'[i].nb = nodes[i].nb + 1
                  /\ nodes'[i].be = Min(nodes[i].be + 1, config.maxBe)]_vars

(* A node is at its second or later retry with the exponent held at maxBe, *)
(* below minBe + nb, where a first retry had raised it.                    *)
C32_Witness ==
    \E i \in Ids :
        /\ nodes[i].nb >= 2
        /\ config.minBe < config.maxBe
        /\ nodes[i].be = config.maxBe
        /\ config.minBe + nodes[i].nb > config.maxBe

----------------------------------------------------------------------------
(* The work a run still has to do.  An attempt takes at most one tick of   *)
(* sensing, the largest backoff draw and the frame, and its preamble and   *)
(* frame control can each put a NAV on every other node; a packet takes at *)
(* most maxNb + 1 attempts and one tick in FAILED.                         *)
MaxDraw(c) == c.pe + Pow2(c.maxBe) - 1

NavBudget(c, position) ==
    (c.nodeCount - 1)
        * ((IF position <= 1 THEN c.collisionPenalty ELSE 0)
            + (IF position <= 2 THEN DurationRemaining(c) ELSE 0))

FrameCost(c, position) == AirTime(c) - position + 1 + NavBudget(c, position)

AttemptCost(c) == 1 + MaxDraw(c) + FrameCost(c, 1)

PacketCost(c) == (c.maxNb + 1) * AttemptCost(c) + 1

PositionOf(n, c) ==
    CASE n.state = TX_PREAMBLE -> 1
      [] n.state = TX_FC -> 2
      [] n.state = TX_DATA -> 3 + n.txProgress
      [] n.state = WAIT_RIFS -> 3 + c.dataSlots
      [] n.state = RX_ACK -> 4 + c.dataSlots + n.txProgress

NodeRemaining(n, c) ==
    LET later == (c.maxNb - n.nb) * AttemptCost(c) + 1
                    + (Len(n.packetQueue) - 1) * PacketCost(c)
    IN  n.vcs
        + CASE n.state = IDLE -> Len(n.packetQueue) * PacketCost(c)
            [] n.state = FAILED -> 1 + Len(n.packetQueue) * PacketCost(c)
            [] n.state = SENSING -> AttemptCost(c) + later
            [] n.state \in {BACKOFF, BACKOFF_PAUSED} ->
                   n.backoffCounter + FrameCost(c, 1) + later
            [] n.state \in InFlightStates -> FrameCost(c, PositionOf(n, c)) + later

Remaining(ns, c) ==
    SumOver([i \in DOMAIN ns |-> NodeRemaining(ns[i], c)], 0, LastId(c))

Drained == \A i \in Ids : nodes[i].state = IDLE /\ nodes[i].packetQueue = <<>>

AllCounted ==
    stats.successCount + stats.failureCount = stats.totalPacketsGenerated

NoArrivalNow == \A i \in Ids : GeneratedNow(i) = 0

(* No packet arrives in the rest of the run *)
NoLaterArrival ==
    \A u \in t..(config.simDuration - 1) :
        config.packetGenMode = "INTERVAL" /\ u % config.packetInterval # 0

(* The rest of the run is long enough for the work that is left *)
LongEnough == Remaining(nodes, config) <= config.simDuration - t

(* The loop runs every tick up to simDuration and then returns *)
FairSpec == Spec /\ WF_vars(Tick) /\ WF_vars(Return)

(* C33: when no packet arrives any more and the run goes on long enough,   *)
(* whatever the backoff draws, every queued packet gets counted as a       *)
(* success or a failure and every node comes back to IDLE with an empty    *)
(* queue and stays there, with successCount + failureCount equal to        *)
(* totalPacketsGenerated from then on; no node stays in SENSING, BACKOFF   *)
(* or BACKOFF_PAUSED for ever.  Every tick without an arrival takes        *)
(* something off the work that is left until the nodes are drained.        *)
C33_Progress ==
    /\ [](Drained => AllCounted)
    /\ [][(t' = t + 1 /\ NoArrivalNow) =>
            IF Drained
            THEN Drained' /\ AllCounted'
            ELSE /\ Remaining(nodes', config) < Remaining(nodes, config)
                 /\ Remaining(nodes', config) >= 0]_vars
    /\ [][\A i \in Ids :
            (t' = t + 1 /\ NoArrivalNow /\ nodes[i].state \in DeferringStates
                /\ nodes'[i].state \in DeferringStates) =>
                NodeRemaining(nodes'[i], config)
                        < NodeRemaining(nodes[i], config)
                \/ \E j \in Ids \ {i} : nodes[j].state \in InFlightStates]_vars
    /\ [](NoLaterArrival /\ LongEnough => <>[](Drained /\ AllCounted))

(* With no arrival left and time enough for the work that is left, a node  *)
(* is at a retry in BACKOFF_PAUSED behind a NAV while the other node's     *)
(* frame is on the air.                                                    *)
C33_Witness ==
    /\ pc = "run"
    /\ NoLaterArrival
    /\ LongEnough
    /\ \E i, j \in Ids :
          /\ nodes[i].state = BACKOFF_PAUSED
          /\ nodes[i].vcs > 0
          /\ nodes[i].nb >= 1
          /\ nodes[j].state \in InFlightStates

====
